---- MODULE Spec2Model ----
(***************************************************************************)
(* A model of the persistence core of penny (fedluc/penny): the category   *)
(* store, the deduplicating expense store, the classification cache and    *)
(* the classify workflow of GPTClassifier.                                 *)
(*                                                                         *)
(* Every database statement that reads and every commit is one step of a   *)
(* client, so that two clients interleave exactly where two sessions on    *)
(* the same SQLite file can.  The constraints of tables.py (primary keys,  *)
(* UNIQUE columns) are checked by the commit steps.  engine.py never sets  *)
(* PRAGMA foreign_keys, so SQLite does not enforce the foreign key.        *)
(***************************************************************************)
EXTENDS Integers, Sequences, FiniteSets, TLC

VARIABLES
    categories,   \* rows of table "categories"
    expenses,     \* rows of table "expenses"
    cache,        \* rows of table "classification_cache"
    pc,           \* pc[p]: where client p stands in the operation it runs
    loc,          \* loc[p]: the locals of that operation
    hist,         \* the calls that have returned, with what they returned
    calls         \* number of calls that may still start

vars == <<categories, expenses, cache, pc, loc, hist, calls>>

\* ------------------------------------------------------------------ bounds

\* Calls started in one behaviour of the category store.
MaxCategoryCalls == 2

\* Calls started in one behaviour of the expense store.
MaxExpenseCalls == 2

\* Calls started in one behaviour of the classification cache.
MaxCacheCalls == 3

\* Calls started in one behaviour of the classifier.
MaxClassifyCalls == 3

\* Calls started in one behaviour of the category store with one client.
MaxCategorySeqCalls == 4

\* Calls started in one behaviour of the store with deletions.
MaxDeleteCalls == 3

\* Calls started in one behaviour of the queries.
MaxQueryCalls == 3

\* The calls the clients of SpecReport may start.
MaxReportCalls == 3

\* The calls the clients of SpecHash may start.
MaxHashCalls == 2

\* The calls the clients of SpecBatch may start.
MaxBatchCalls == 2

\* The calls the clients of SpecClassify may start.
MaxClassifyRaceCalls == 2

\* The requests the clients of SpecHandler may send.
MaxHandlerCalls == 2

\* The calls the clients of SpecPage may start.
MaxPageCalls == 2

\* The calls the client of SpecDbQuery may start.
MaxDbQueryCalls == 2

\* The clients (request-handling threads, each with sessions of its own).
Procs == {"p1", "p2"}

\* ------------------------------------------------------- Python values

\* Python's None and an Optional value that is present.
None == <<>>
Some(x) == <<x>>

Ok(v) == <<"ok", v>>
Raised(e) == <<"raised", e>>

Max(S) == CHOOSE x \in S : \A y \in S : y <= x
Min(S) == CHOOSE x \in S : \A y \in S : x <= y

\* ------------------------------------------------------------- strings
\* A name is a sequence of characters.  "E_acute" and "e_acute" stand for
\* the letters U+00C9 and U+00E9, one non-ASCII upper/lower pair.

OtherName == <<"o","t","h","e","r">>

\* The letters that have a lower-case form, ASCII and not, with that form.
AsciiUpper == <<"A", "C", "F", "N", "O", "P">>
AsciiLower == <<"a", "c", "f", "n", "o", "p">>
OtherUpper == <<"E_acute">>
OtherLower == <<"e_acute">>

Fold(c, upper, lower) ==
    IF \E i \in 1..Len(upper) : upper[i] = c
    THEN lower[CHOOSE i \in 1..Len(upper) : upper[i] = c] ELSE c

\* str.lower() of Python: Unicode case mapping.
PyLowerChar(c) == Fold(c, AsciiUpper \o OtherUpper, AsciiLower \o OtherLower)

PyLower(s) == [i \in 1..Len(s) |-> PyLowerChar(s[i])]

\* lower() of SQLite, and the folding of its LIKE: ASCII letters only.
SqlLowerChar(c) == Fold(c, AsciiUpper, AsciiLower)

SqlLower(s) == [i \in 1..Len(s) |-> SqlLowerChar(s[i])]

\* x LIKE pat in SQLite: '%' matches any run of characters, '_' any one
\* character, any other character itself up to ASCII case; no escape.
RECURSIVE Like(_, _)
Like(s, pat) ==
    IF pat = <<>> THEN s = <<>>
    ELSE IF Head(pat) = "%"
         THEN Like(s, Tail(pat)) \/ (s # <<>> /\ Like(Tail(s), pat))
         ELSE /\ s # <<>>
              /\ \/ Head(pat) = "_"
                 \/ SqlLowerChar(Head(pat)) = SqlLowerChar(Head(s))
              /\ Like(Tail(s), Tail(pat))

\* Column.ilike(pat), which SQLAlchemy renders lower(col) LIKE lower(pat).
ILike(col, pat) == Like(SqlLower(col), SqlLower(pat))

\* ------------------------------------------------------------- hashing
\* A dict is <<"dict", pairs>>, pairs the sequence of its <<key, value>>
\* items in insertion order; a str is <<"text", t>>.  A JSON value is a
\* tagged tuple: <<"int", n>>, <<"float", n>>, <<"str", s>>, <<"null">>.

Dict(pairs) == <<"dict", pairs>>
Text(t) == <<"text", t>>

\* The keys of the payloads, in lexicographic order.
KeyOrder == <<"amount", "category", "category_id", "date", "description">>

\* json.dumps(value, sort_keys=True, separators=(",", ":")) of a value: the
\* items of a dict sorted by key at every level, every other value rendered
\* by its type (an int as 5, a float as 5.0, a str quoted).
RECURSIVE Dumps(_)
Dumps(value) ==
    IF value[1] # "dict" THEN value
    ELSE LET pairs == value[2]
             at(k) == {i \in 1..Len(pairs) : pairs[i][1] = k}
             has(i) == at(KeyOrder[i]) # {}
             item(i) == pairs[CHOOSE j \in at(KeyOrder[i]) : TRUE]
             RECURSIVE sorted(_)
             sorted(i) == IF i > Len(KeyOrder) THEN <<>>
                          ELSE (IF has(i) THEN <<<<item(i)[1], Dumps(item(i)[2])>>>> ELSE <<>>)
                               \o sorted(i + 1)
         IN <<"object", sorted(1)>>

\* normalize_for_hash(payload): the text json.dumps makes of the dict.
normalize_for_hash(payload) == Text(Dumps(payload)[2])

\* hash(text): a dict is normalised first, a str is digested as it is.
\* SHA-256 is modelled as injective on the texts of the model.
hash(text) ==
    LET normalized_text == IF text[1] = "dict" THEN normalize_for_hash(text) ELSE text
    IN <<"sha256", normalized_text[2]>>

\* The JSON values of a payload, as json.dumps tells them apart.
JsonNull == <<"null">>
JsonInt(n) == <<"int", n>>
JsonFloat(x) == <<"float", x>>
JsonStr(t) == <<"str", t>>

\* date.isoformat(): the one YYYY-MM-DD text of day d.
isoformat(d) == <<"YYYY-MM-DD", d>>

\* bool(raw) of Python for a dict or None: None and the empty dict are false.
Truthy(raw) == raw # None /\ raw[2] # <<>>

\* ------------------------------------------------------------ the tables

\* An id that is handed out again.
NextIdReused(rows) == 1

\* The id SQLite gives a new row of an INTEGER PRIMARY KEY table.
NextId(rows) == IF rows = {} THEN 1 ELSE Max({r.id : r \in rows}) + 1

\* Query.first() of a statement without ORDER BY: SQLite scans the table
\* in rowid order, so the matching row of least id.
First(rows) == CHOOSE r \in rows : \A q \in rows : r.id <= q.id

Category(id, name, description) ==
    [id |-> id, name |-> name, description |-> description, is_active |-> TRUE]

Expense(id, date, amount, description, category_id, hash_val) ==
    [id |-> id, date |-> date, amount |-> amount, description |-> description,
     category_id |-> category_id, hash |-> hash_val]

\* ------------------------------------------------------- the call history

Idle == [op |-> "idle"]

\* The call of client p returns (or raises) res, having inserted the rows
\* `wrote` and gone through `steps` on the way.
ReturnWith(p, op, args, res, wrote, steps) ==
    /\ hist' = Append(hist, [op |-> op, args |-> args, res |-> res, wrote |-> wrote,
                             steps |-> steps])
    /\ pc' = [pc EXCEPT ![p] = "idle"]
    /\ loc' = [loc EXCEPT ![p] = Idle]

Return(p, op, args, res, wrote) == ReturnWith(p, op, args, res, wrote, <<>>)

\* Client p goes on to step `at` of its call with locals l.
Goto(p, at, l) ==
    /\ pc' = [pc EXCEPT ![p] = at]
    /\ loc' = [loc EXCEPT ![p] = l]
    /\ hist' = hist

Start(p) == pc[p] = "idle" /\ calls > 0 /\ calls' = calls - 1

\* ------------------------------------------------------------ ExpenseRepo

\* ExpenseRepo._key_for_raw
_key_for_raw(raw) == IF Truthy(raw) THEN hash(raw) ELSE None

\* _find_id_by_hash that finds nothing.
FindNothing(key) == None

\* ExpenseRepo._find_id_by_hash
_find_id_by_hash(key) ==
    LET row == {e \in expenses : e.hash = key}
    IN IF row # {} THEN Some(First(row).id) ELSE None

\* The hash add stores: ExpenseRepo.add takes it from _key_for_raw whatever
\* dedupe_on_hash is; Database.add_expense computes it only when dedupe_on_hash
\* is set and raw is not None.
HashVal(a) ==
    IF a.api = "repo" THEN _key_for_raw(a.raw)
    ELSE IF a.dedupe_on_hash /\ a.raw # None
         THEN hash(normalize_for_hash(a.raw)) ELSE None

\* Whether add looks for an existing row before it inserts.
LooksUp(a) ==
    IF a.api = "repo" THEN a.dedupe_on_hash /\ HashVal(a) # None
    ELSE a.dedupe_on_hash /\ a.raw # None

\* `description or ""`
DescriptionOrEmpty(d) == IF d = None \/ d = Some("") THEN "" ELSE d[1]

\* expenses.hash without its UNIQUE index.
HashNotUnique(hash_val) == TRUE

\* UNIQUE on expenses.hash: NULLs never collide.
HashUnique(hash_val) == hash_val = None \/ \A e \in expenses : e.hash # hash_val

\* The row add inserts.
NewExpense(a, hash_val) ==
    Expense(NextId(expenses), a.date, a.amount, DescriptionOrEmpty(a.description),
            a.category_id, hash_val)

\* add, up to its SELECT: return the existing id on a hit, else go on to
\* the INSERT.
AddCall(p, a) ==
    /\ Start(p)
    /\ LET existing_id == IF LooksUp(a) THEN _find_id_by_hash(HashVal(a)) ELSE None
       IN IF existing_id # None /\ existing_id[1] # 0
          THEN Return(p, "add", a, Ok(existing_id[1]), {})
          ELSE Goto(p, "add_commit", [op |-> "add", args |-> a, hash_val |-> HashVal(a)])
    /\ UNCHANGED <<categories, expenses, cache>>

\* add, s.add(exp); s.commit(): the INSERT, which the UNIQUE index on hash
\* refuses (IntegrityError, not caught) when the hash is already stored.
AddCommit(p) ==
    /\ pc[p] = "add_commit"
    /\ LET a == loc[p].args
           exp == NewExpense(a, loc[p].hash_val)
       IN IF HashUnique(loc[p].hash_val)
          THEN /\ expenses' = expenses \cup {exp}
               /\ Return(p, "add", a, Ok(exp.id), {exp})
          ELSE /\ expenses' = expenses
               /\ Return(p, "add", a, Raised("IntegrityError"), {})
    /\ UNCHANGED <<categories, cache, calls>>

\* ----------------------------------------------------------- CategoryRepo

\* UNIQUE on categories.name (BINARY collation: exact spelling).
NameUnique(name) == \A c \in categories : c.name # name

\* The rows whose name matches Category.name.ilike(name).
Matching(name) == {c \in categories : ILike(c.name, name)}

\* get_or_create_other that looks for the exact spelling 'other'.
OtherRowExact ==
    IF {c \in categories : c.name = OtherName} # {}
    THEN Some(First({c \in categories : c.name = OtherName}).id) ELSE None

\* get_or_create_other, its SELECT: the id of the first row like 'other', or
\* None when the row has to be created.
OtherRow == IF Matching(OtherName) # {} THEN Some(First(Matching(OtherName)).id) ELSE None

\* get_or_create_other, up to its SELECT.
OtherCall(p) ==
    /\ Start(p)
    /\ IF OtherRow # None
       THEN Return(p, "get_or_create_other", None, Ok(OtherRow[1]), {})
       ELSE Goto(p, "other_commit", [op |-> "get_or_create_other", args |-> None])
    /\ UNCHANGED <<categories, expenses, cache>>

\* get_or_create_other, s.add(row); s.commit(): the INSERT of 'other', which
\* the UNIQUE index on name refuses when a row spelled 'other' is there.
OtherCommit(p) ==
    /\ pc[p] = "other_commit"
    /\ LET row == Category(NextId(categories), OtherName, "Fallback category")
       IN IF NameUnique(OtherName)
          THEN /\ categories' = categories \cup {row}
               /\ Return(p, loc[p].op, loc[p].args, Ok(row.id), {row})
          ELSE /\ categories' = categories
               /\ Return(p, loc[p].op, loc[p].args, Raised("IntegrityError"), {})
    /\ UNCHANGED <<expenses, cache, calls>>

\* resolve_id that forgets the fallback id it was given.
ResolveRowNoFallback(name, fallback_other_id) ==
    IF {c \in categories : ILike(c.name, name)} # {}
    THEN Some(First({c \in categories : ILike(c.name, name)}).id)
    ELSE None

\* resolve_id, its SELECT and what it returns without get_or_create_other:
\* the first matching row, else the fallback id when one is given.
ResolveRow(name, fallback_other_id) ==
    IF Matching(name) # {} THEN Some(First(Matching(name)).id)
    ELSE fallback_other_id

\* resolve_id, up to its SELECT.
ResolveCall(p, name, fallback_other_id) ==
    /\ Start(p)
    /\ LET a == [name |-> name, fallback_other_id |-> fallback_other_id]
           row == ResolveRow(name, fallback_other_id)
       IN IF row # None
          THEN Return(p, "resolve_id", a, Ok(row[1]), {})
          ELSE Goto(p, "resolve_other", [op |-> "resolve_id", args |-> a])
    /\ UNCHANGED <<categories, expenses, cache>>

\* resolve_id on a miss without fallback: the SELECT of get_or_create_other.
ResolveOther(p) ==
    /\ pc[p] = "resolve_other"
    /\ IF OtherRow # None
       THEN Return(p, loc[p].op, loc[p].args, Ok(OtherRow[1]), {})
       ELSE Goto(p, "other_commit", loc[p])
    /\ UNCHANGED <<categories, expenses, cache, calls>>

\* What an undisturbed resolve_id(name, fallback_other_id) returns in the
\* current state: the row, the fallback, or get_or_create_other's id (that
\* of the first row like 'other', else of the row it inserts).
resolve_id(name, fallback_other_id) ==
    IF ResolveRow(name, fallback_other_id) # None THEN ResolveRow(name, fallback_other_id)[1]
    ELSE IF OtherRow # None THEN OtherRow[1]
    ELSE NextId(categories)

\* ---------------------------------------------------------- save_expenses
\* An item is [date, description, amount, category_id, category], the last
\* two Optional.

\* A save_expenses that does not resolve the category name of an item.
ItemCatIdNoResolve(item, other_id) ==
    IF item.category_id # None THEN item.category_id[1] ELSE other_id

\* The category id save_expenses gives an item: its category_id, else its
\* category name resolved with 'other' as fallback, else 'other'.
ItemCatId(item, other_id) ==
    IF item.category_id # None THEN item.category_id[1]
    ELSE IF item.category # None /\ item.category # Some(<<>>)
         THEN ResolveRow(item.category[1], Some(other_id))[1]
         ELSE other_id

\* A raw payload that leaves the category name of the item out.
ItemRawNoCategory(item, cat_id) ==
    Dict(<< <<"date", JsonStr(isoformat(item.date))>>,
            <<"description", JsonStr(item.description)>>,
            <<"amount", JsonFloat(item.amount)>>,
            <<"category", JsonNull>>,
            <<"category_id", JsonInt(cat_id)>> >>)

\* The raw payload save_expenses hashes for an item.
ItemRaw(item, cat_id) ==
    Dict(<< <<"date", JsonStr(isoformat(item.date))>>,
            <<"description", JsonStr(item.description)>>,
            <<"amount", JsonFloat(item.amount)>>,
            <<"category", IF item.category = None THEN JsonNull ELSE JsonStr(item.category[1])>>,
            <<"category_id", JsonInt(cat_id)>> >>)

\* The arguments of the exp_repo.add call for an item.
ItemAdd(item, other_id, dedupe_on_hash) ==
    [api |-> "repo", date |-> item.date, amount |-> item.amount,
     description |-> Some(item.description),
     category_id |-> ItemCatId(item, other_id),
     raw |-> ItemRaw(item, ItemCatId(item, other_id)),
     dedupe_on_hash |-> dedupe_on_hash]

\* The loop of save_expenses: on to the next item, or return the ids.
SaveLoop(p, l) ==
    IF l.i > Len(l.args.items)
    THEN Return(p, "save_expenses", l.args, Ok(l.inserted), l.wrote)
    ELSE Goto(p, "save_item", l)

\* save_expenses, up to the SELECT of get_or_create_other.
SaveCall(p, items, dedupe_on_hash) ==
    /\ Start(p)
    /\ LET l == [op |-> "save_expenses",
                 args |-> [items |-> items, dedupe_on_hash |-> dedupe_on_hash],
                 other_id |-> IF OtherRow # None THEN OtherRow[1] ELSE 0,
                 i |-> 1, inserted |-> <<>>, wrote |-> {}]
       IN IF OtherRow # None THEN SaveLoop(p, l) ELSE Goto(p, "save_other_commit", l)
    /\ UNCHANGED <<categories, expenses, cache>>

\* save_expenses, the INSERT of get_or_create_other.
SaveOtherCommit(p) ==
    /\ pc[p] = "save_other_commit"
    /\ LET row == Category(NextId(categories), OtherName, "Fallback category")
       IN IF NameUnique(OtherName)
          THEN /\ categories' = categories \cup {row}
               /\ SaveLoop(p, [loc[p] EXCEPT !.other_id = row.id])
          ELSE /\ categories' = categories
               /\ Return(p, "save_expenses", loc[p].args, Raised("IntegrityError"), loc[p].wrote)
    /\ UNCHANGED <<expenses, cache, calls>>

\* save_expenses, one item up to the SELECTs of resolve_id and of add (the
\* two read different tables, and no commit writes both).
SaveItem(p) ==
    /\ pc[p] = "save_item"
    /\ LET l == loc[p]
           a == ItemAdd(l.args.items[l.i], l.other_id, l.args.dedupe_on_hash)
           existing_id == IF LooksUp(a) THEN _find_id_by_hash(HashVal(a)) ELSE None
       IN IF existing_id # None /\ existing_id[1] # 0
          THEN SaveLoop(p, [l EXCEPT !.i = @ + 1, !.inserted = Append(@, existing_id[1])])
          ELSE Goto(p, "save_commit", l)
    /\ UNCHANGED <<categories, expenses, cache, calls>>

\* save_expenses, the INSERT and commit of add for one item; an
\* IntegrityError ends the call and leaves the rows committed so far.
SaveCommit(p) ==
    /\ pc[p] = "save_commit"
    /\ LET l == loc[p]
           a == ItemAdd(l.args.items[l.i], l.other_id, l.args.dedupe_on_hash)
           exp == NewExpense(a, HashVal(a))
       IN IF HashUnique(HashVal(a))
          THEN /\ expenses' = expenses \cup {exp}
               /\ SaveLoop(p, [l EXCEPT !.i = @ + 1, !.inserted = Append(@, exp.id),
                                         !.wrote = @ \cup {exp}])
          ELSE /\ expenses' = expenses
               /\ Return(p, "save_expenses", l.args, Raised("IntegrityError"), l.wrote)
    /\ UNCHANGED <<categories, cache, calls>>

\* ------------------------------------------ the save-expenses handler

\* datetime.strptime(item.date, "%Y-%m-%d").date(): the day of a text in that
\* format, ValueError for any other text.
ParseDate(text) == IF text[1] = "YYYY-MM-DD" THEN Ok(text[2]) ELSE Raised("ValueError")

\* The arguments of the db.add_expense call of the handler for an item: the
\* raw payload carries the date as the text received (the request model has
\* made the amount a float already, so float(item.amount) does not raise).
HandlerAdd(item, other_id) ==
    LET cat_id == ItemCatId(item, other_id)
    IN [api |-> "db", date |-> ParseDate(item.date)[2], amount |-> item.amount,
        description |-> Some(item.description), category_id |-> cat_id,
        raw |-> Dict(<< <<"date", JsonStr(item.date)>>,
                        <<"description", JsonStr(item.description)>>,
                        <<"amount", JsonFloat(item.amount)>>,
                        <<"category", IF item.category = None THEN JsonNull
                                      ELSE JsonStr(item.category[1])>>,
                        <<"category_id", JsonInt(cat_id)>> >>),
        dedupe_on_hash |-> TRUE]

\* The loop of the handler: on to the next item, or the response.
HandlerLoop(p, l) ==
    IF l.i > Len(l.args.expenses)
    THEN Return(p, "save_expenses_handler", l.args, Ok(l.inserted), l.wrote)
    ELSE Goto(p, "handler_item", l)

\* The handler, up to the SELECT of db.get_or_create_other().
HandlerCall(p, expenses_in) ==
    /\ Start(p)
    /\ LET l == [op |-> "save_expenses_handler", args |-> [expenses |-> expenses_in],
                 other_id |-> IF OtherRow # None THEN OtherRow[1] ELSE 0,
                 i |-> 1, inserted |-> <<>>, wrote |-> {}]
       IN IF OtherRow # None THEN HandlerLoop(p, l) ELSE Goto(p, "handler_other_commit", l)
    /\ UNCHANGED <<categories, expenses, cache>>

\* The handler, the INSERT of get_or_create_other.
HandlerOtherCommit(p) ==
    /\ pc[p] = "handler_other_commit"
    /\ LET row == Category(NextId(categories), OtherName, "Fallback category")
       IN IF NameUnique(OtherName)
          THEN /\ categories' = categories \cup {row}
               /\ HandlerLoop(p, [loc[p] EXCEPT !.other_id = row.id])
          ELSE /\ categories' = categories
               /\ Return(p, "save_expenses_handler", loc[p].args, Raised("IntegrityError"),
                         loc[p].wrote)
    /\ UNCHANGED <<expenses, cache, calls>>

\* The handler, one item: the date is parsed (HTTP 400 when it is not one),
\* the category resolved and the expense looked up by its hash.
HandlerItem(p) ==
    /\ pc[p] = "handler_item"
    /\ LET l == loc[p]
           item == l.args.expenses[l.i]
       IN IF ParseDate(item.date)[1] = "raised"
          THEN Return(p, "save_expenses_handler", l.args, Raised("HTTP 400"), l.wrote)
          ELSE LET a == HandlerAdd(item, l.other_id)
                   existing == _find_id_by_hash(HashVal(a))
               IN IF existing # None /\ existing[1] # 0
                  THEN HandlerLoop(p, [l EXCEPT !.i = @ + 1,
                                                !.inserted = Append(@, existing[1])])
                  ELSE Goto(p, "handler_commit", l)
    /\ UNCHANGED <<categories, expenses, cache, calls>>

\* The handler, the INSERT and commit of db.add_expense for one item.
HandlerCommit(p) ==
    /\ pc[p] = "handler_commit"
    /\ LET l == loc[p]
           a == HandlerAdd(l.args.expenses[l.i], l.other_id)
           exp == NewExpense(a, HashVal(a))
       IN IF HashUnique(HashVal(a))
          THEN /\ expenses' = expenses \cup {exp}
               /\ HandlerLoop(p, [l EXCEPT !.i = @ + 1, !.inserted = Append(@, exp.id),
                                            !.wrote = @ \cup {exp}])
          ELSE /\ expenses' = expenses
               /\ Return(p, "save_expenses_handler", l.args, Raised("IntegrityError"),
                         l.wrote)
    /\ UNCHANGED <<categories, cache, calls>>

\* --------------------------------------------------- ClassificationCache

\* The cache row of key, if any (Session.get by primary key).
CacheGet(key) == {r \in cache : r.hash = key}

\* ClassificationCacheRepo.lookup / Database.cache_lookup
lookup(tx) ==
    LET key == hash(tx)
        row == CacheGet(key)
    IN IF row # {} THEN Some((CHOOSE r \in row : TRUE).category_id) ELSE None

\* A cache table without its primary key.
CachePkFree(key) == TRUE

\* PRIMARY KEY on classification_cache.hash.
CachePk(key) == \A r \in cache : r.hash # key

\* A write that leaves an existing row as it is.
CacheInsertOnly(key, category_id, existing) ==
    IF existing THEN cache ELSE cache \cup {[hash |-> key, category_id |-> category_id]}

\* The cache table after the commit of write: the UPDATE of the row that
\* s.get found, or the INSERT of a new one.
CacheUpsert(key, category_id, existing) ==
    IF existing
    THEN {IF r.hash = key THEN [r EXCEPT !.category_id = category_id] ELSE r : r \in cache}
    ELSE cache \cup {[hash |-> key, category_id |-> category_id]}

\* The commit of write succeeds: an UPDATE always, an INSERT when the
\* primary key is free.
CacheCommits(key, existing) == existing \/ CachePk(key)

\* lookup, one SELECT.
CacheLookupCall(p, tx) ==
    /\ Start(p)
    /\ Return(p, "lookup", [tx |-> tx], Ok(lookup(tx)), {})
    /\ UNCHANGED <<categories, expenses, cache>>

\* write, up to s.get(ClassificationCache, key).
CacheWriteCall(p, tx, category_id) ==
    /\ Start(p)
    /\ Goto(p, "cache_commit", [op |-> "write", args |-> [tx |-> tx, category_id |-> category_id],
                                existing |-> CacheGet(hash(tx)) # {}])
    /\ UNCHANGED <<categories, expenses, cache>>

\* write, the assignment or s.add, and s.commit().
CacheWriteCommit(p) ==
    /\ pc[p] = "cache_commit"
    /\ LET a == loc[p].args
           key == hash(a.tx)
       IN IF CacheCommits(key, loc[p].existing)
          THEN /\ cache' = CacheUpsert(key, a.category_id, loc[p].existing)
               /\ Return(p, "write", a, Ok(None), cache' \ cache)
          ELSE /\ cache' = cache
               /\ Return(p, "write", a, Raised("IntegrityError"), {})
    /\ UNCHANGED <<categories, expenses, calls>>

\* ----------------------------------------------------------- GPTClassifier

\* The characters of the names, in the order of their UTF-8 bytes, which is
\* the order of SQLite's BINARY collation.
Alphabet ==
    <<"%", "A", "C", "F", "N", "O", "P", "_", "a", "b", "c", "e", "f", "g", "h", "i", "l",
      "m", "n", "o", "p", "r", "s", "t", "u", "x", "E_acute", "e_acute">>

Rank(c) == CHOOSE i \in 1..Len(Alphabet) : Alphabet[i] = c

\* a < b for two names, as ORDER BY name compares them.
RECURSIVE NameLess(_, _)
NameLess(a, b) ==
    IF a = <<>> THEN b # <<>>
    ELSE IF b = <<>> THEN FALSE
    ELSE IF a[1] = b[1] THEN NameLess(Tail(a), Tail(b))
    ELSE Rank(a[1]) < Rank(b[1])

\* [r.name for r in query.order_by(Category.name).all()]
RECURSIVE OrderByName(_)
OrderByName(rows) ==
    IF rows = {} THEN <<>>
    ELSE LET r == CHOOSE r \in rows : \A q \in rows : q = r \/ NameLess(r.name, q.name)
         IN <<r.name>> \o OrderByName(rows \ {r})

\* The limit of _fetch_categories_with_other.
DefaultLimit == 50

\* Database.get_active_category_names_with_other, after get_or_create_other:
\* the active names in order, ["other"] when there are none, 'other'
\* appended when no name is 'other' in lower case, cut at limit.
ActiveNamesWithOther(limit) ==
    LET active == OrderByName({c \in categories : c.is_active})
        names == IF active = <<>> THEN <<OtherName>> ELSE active
        lowered == {PyLower(names[i]) : i \in 1..Len(names)}
        with_other == IF OtherName \notin lowered THEN names \o <<OtherName>> ELSE names
    IN SubSeq(with_other, 1, Min({limit, Len(with_other)}))

\* active_names_with_other, up to the SELECT of get_or_create_other.
NamesCall(p, limit) ==
    /\ Start(p)
    /\ LET l == [op |-> "active_names_with_other", args |-> [limit |-> limit], wrote |-> {}]
       IN IF OtherRow # None
          THEN Goto(p, "names_select", [other_id |-> OtherRow[1]] @@ l)
          ELSE Goto(p, "names_other_commit", l)
    /\ UNCHANGED <<categories, expenses, cache>>

\* active_names_with_other, the INSERT of get_or_create_other.
NamesOtherCommit(p) ==
    /\ pc[p] = "names_other_commit"
    /\ LET row == Category(NextId(categories), OtherName, "Fallback category")
       IN IF NameUnique(OtherName)
          THEN /\ categories' = categories \cup {row}
               /\ Goto(p, "names_select",
                       [other_id |-> row.id] @@ [loc[p] EXCEPT !.wrote = {row}])
          ELSE /\ categories' = categories
               /\ Return(p, loc[p].op, loc[p].args, Raised("IntegrityError"), {})
    /\ UNCHANGED <<expenses, cache, calls>>

\* active_names_with_other, the SELECT of the active names, and the return
\* of (names[:limit], other_id).
NamesSelect(p) ==
    /\ pc[p] = "names_select"
    /\ Return(p, loc[p].op, loc[p].args,
              Ok(<<ActiveNamesWithOther(loc[p].args.limit), loc[p].other_id>>), loc[p].wrote)
    /\ UNCHANGED <<categories, expenses, cache, calls>>

\* A cache lookup that finds nothing.
CacheLookupMiss(tx) == None

\* Database.cache_lookup: the key is hash(normalize_for_hash(tx)).
cache_lookup(tx) == lookup(normalize_for_hash(tx))

\* A tool call of the response: its type, the name of its function and the
\* arguments.  The arguments are <<"dict", v>> for a dict, <<"str", Some(v)>>
\* for a str that json.loads parses to v, <<"str", None>> for one it
\* rejects, <<"none">> for anything else; v is <<"object", cat>> for a dict
\* with cat under "category" (None: the empty dict) and <<"array">> for a
\* non-empty JSON array.
ToolCall(type, name, arguments) == [type |-> type, name |-> name, arguments |-> arguments]
Categorize(arguments) == ToolCall("function", "categorize_transaction", arguments)
Object(cat) == <<"object", cat>>
Array == <<"array">>

\* _extract_category_from_tool_calls, the body of its loop for one call:
\* <<"continue">>, <<"return", cat>> or <<"raise", e>>.
ExtractCall(call, names) ==
    IF call.type # "function" THEN <<"continue">>
    ELSE IF call.name # "categorize_transaction" THEN <<"continue">>
    ELSE LET args_raw == call.arguments
             parses == args_raw[1] = "dict" \/ (args_raw[1] = "str" /\ args_raw[2] # None)
             args == IF args_raw[1] = "dict" THEN args_raw[2] ELSE args_raw[2][1]
         IN IF args_raw[1] = "str" /\ args_raw[2] = None THEN <<"continue">>
            ELSE IF ~parses THEN <<"continue">>
            ELSE IF args = Object(None) THEN <<"continue">>
            ELSE IF args[1] # "object" THEN <<"raise", "AttributeError">>
            ELSE IF \E i \in 1..Len(names) : names[i] = args[2][1]
                 THEN <<"return", args[2][1]>>
                 ELSE <<"continue">>

\* _extract_category_from_tool_calls: resp is None for a response without
\* choices, else the tool calls of the first choice.
RECURSIVE ExtractFrom(_, _)
ExtractFrom(tool_calls, names) ==
    IF tool_calls = <<>> THEN Ok(None)
    ELSE LET r == ExtractCall(tool_calls[1], names)
         IN IF r[1] = "return" THEN Ok(Some(r[2]))
            ELSE IF r[1] = "raise" THEN Raised(r[2])
            ELSE ExtractFrom(Tail(tool_calls), names)

_extract_category_from_tool_calls(resp, names) ==
    IF resp = None THEN Ok(None) ELSE ExtractFrom(resp[1], names)

\* _request_model_choice: outcome is <<"raises">> when the request raises,
\* <<"resp", resp>> when it answers.  The request is inside the try, the
\* extraction after it.
_request_model_choice(outcome, names) ==
    IF outcome[1] = "raises" THEN Ok(OtherName)
    ELSE LET r == _extract_category_from_tool_calls(outcome[2], names)
         IN IF r[1] = "raised" THEN r
            ELSE IF r[2] = None \/ r[2] = Some(<<>>) THEN Ok(OtherName)
            ELSE Ok(r[2][1])

\* What the model call came to: the request raised, the extraction raised,
\* a label of the vocabulary was found, or none was.
OutcomeKind(outcome, names) ==
    IF outcome[1] = "raises" THEN "raised"
    ELSE LET r == _extract_category_from_tool_calls(outcome[2], names)
         IN IF r[1] = "raised" THEN "malformed"
            ELSE IF r[2] = None THEN "unrecognised" ELSE "recognised"

\* A label that is in no vocabulary of the model.
NotOffered == <<"N", "o", "n", "e", "x", "i", "s", "t", "e", "n", "t">>

\* The outcomes of the request, given the vocabulary it offers.
Outcomes(names) ==
    {<<"raises">>, <<"resp", None>>, <<"resp", Some(<<>>)>>}
    \cup {<<"resp", Some(<<Categorize(a)>>)>> :
            a \in {<<"dict", Object(Some(names[1]))>>,
                   <<"dict", Object(Some(NotOffered))>>,
                   <<"dict", Object(None)>>,
                   <<"str", Some(Object(Some(names[1])))>>,
                   <<"str", Some(Object(Some(NotOffered)))>>,
                   <<"str", Some(Array)>>,
                   <<"str", None>>,
                   <<"none">>}}
    \cup {<<"resp", Some(<<ToolCall("text", "categorize_transaction", <<"none">>),
                           ToolCall("function", "lookup", <<"none">>),
                           Categorize(<<"dict", Object(Some(names[1]))>>)>>)>>}

\* One more step of the classify call of client p.
ClfGoto(p, at, l, step) == Goto(p, at, [l EXCEPT !.steps = Append(@, step)])

\* `with self.Session() as s:` of a Database method is entered: the call
\* holds an open session.
EnterSession(l) == [l EXCEPT !.session = TRUE]

\* A with block whose session stays open after its end.
LeaveSessionOpen(l) == [l EXCEPT !.session = TRUE]

\* The with block is left, on its end or on a return inside it: the
\* session is closed.
LeaveSession(l) == [l EXCEPT !.session = FALSE]

\* classify returns (or raises) res.  Called by a client it ends the call;
\* called by classify_batch (the locals carry the batch) an exception ends
\* the batch, and an id is appended to the ids and the loop goes on.
ClfReturn(p, l, res, wrote, steps) ==
    IF "batch" \notin DOMAIN l
    THEN ReturnWith(p, "classify", l.args, res, wrote, steps)
    ELSE LET b == [l.batch EXCEPT !.steps = @ \o steps, !.wrote = @ \cup wrote,
                                  !.ids = IF res[1] = "ok" THEN Append(@, res[2]) ELSE @]
         IN IF res[1] = "raised"
            THEN ReturnWith(p, "classify_batch", [txs |-> b.txs], res, b.wrote, b.steps)
            ELSE IF Len(b.ids) = Len(b.txs)
            THEN ReturnWith(p, "classify_batch", [txs |-> b.txs], Ok(b.ids), b.wrote, b.steps)
            ELSE /\ Goto(p, "batch_item", [op |-> "classify_batch", batch |-> b])

\* A classify that goes on to the vocabulary after a cache hit.
ClassifyCallThrough(p, tx) ==
    /\ Start(p)
    /\ Goto(p, "clf_other", [op |-> "classify", args |-> [tx |-> tx],
                             steps |-> <<<<"cache_lookup", cache_lookup(tx)>>>>, wrote |-> {},
                             session |-> FALSE])
    /\ UNCHANGED <<categories, expenses, cache>>

\* classify, _lookup_cache: the cached id is returned when there is one.
ClassifyCall(p, tx) ==
    /\ Start(p)
    /\ LET cached == cache_lookup(tx)
           step == <<"cache_lookup", cached>>
       IN IF cached # None
          THEN ReturnWith(p, "classify", [tx |-> tx], Ok(cached[1]), {}, <<step>>)
          ELSE Goto(p, "clf_other", [op |-> "classify", args |-> [tx |-> tx],
                                     steps |-> <<step>>, wrote |-> {}, session |-> FALSE])
    /\ UNCHANGED <<categories, expenses, cache>>

\* _fetch_categories_with_other: the SELECT of get_or_create_other.
ClfOther(p) ==
    /\ pc[p] = "clf_other"
    /\ IF OtherRow # None
       THEN Goto(p, "clf_names", [other_id |-> OtherRow[1]] @@ LeaveSession(EnterSession(loc[p])))
       ELSE Goto(p, "clf_other_commit", EnterSession(loc[p]))
    /\ UNCHANGED <<categories, expenses, cache, hist, calls>>

\* _fetch_categories_with_other: the INSERT of get_or_create_other.
ClfOtherCommit(p) ==
    /\ pc[p] = "clf_other_commit"
    /\ LET row == Category(NextId(categories), OtherName, "Fallback category")
       IN IF NameUnique(OtherName)
          THEN /\ categories' = categories \cup {row}
               /\ Goto(p, "clf_names",
                       [other_id |-> row.id] @@ LeaveSession([loc[p] EXCEPT !.wrote = {row}]))
               /\ hist' = hist
          ELSE /\ categories' = categories
               /\ ClfReturn(p, loc[p], Raised("IntegrityError"), {},
                             loc[p].steps)
    /\ UNCHANGED <<expenses, cache, calls>>

\* _fetch_categories_with_other: the SELECT of the active names.
ClfNames(p) ==
    /\ pc[p] = "clf_names"
    /\ LET names == ActiveNamesWithOther(DefaultLimit)
       IN ClfGoto(p, "clf_model", [categories |-> names] @@ LeaveSession(EnterSession(loc[p])),
                  <<"vocabulary", names>>)
    /\ UNCHANGED <<categories, expenses, cache, hist, calls>>

\* _request_model_choice: the request to the external classifier and the
\* extraction of the label from its response.
ClfModel(p) ==
    /\ pc[p] = "clf_model"
    /\ \E outcome \in Outcomes(loc[p].categories) :
        LET chosen_name == _request_model_choice(outcome, loc[p].categories)
            step == <<"model", OutcomeKind(outcome, loc[p].categories)>>
        IN IF chosen_name[1] = "raised"
           THEN ClfReturn(p, loc[p], chosen_name, loc[p].wrote,
                           Append(loc[p].steps, step))
           ELSE /\ ClfGoto(p, "clf_resolve", [chosen_name |-> chosen_name[2]] @@ loc[p], step)
                /\ hist' = hist
    /\ UNCHANGED <<categories, expenses, cache, calls>>

\* _resolve_and_cache: Database.resolve_category_id(chosen_name,
\* fallback_other_id=other_id).
ClfResolve(p) ==
    /\ pc[p] = "clf_resolve"
    /\ LET cat_id == ResolveRow(loc[p].chosen_name, Some(loc[p].other_id))[1]
       IN ClfGoto(p, "clf_cache_get", [cat_id |-> cat_id] @@ LeaveSession(EnterSession(loc[p])),
                  <<"resolve", cat_id>>)
    /\ UNCHANGED <<categories, expenses, cache, hist, calls>>

\* _resolve_and_cache: Database.cache_write, up to s.get.
ClfCacheGet(p) ==
    /\ pc[p] = "clf_cache_get"
    /\ LET key == hash(normalize_for_hash(loc[p].args.tx))
       IN Goto(p, "clf_cache_commit",
               [existing |-> CacheGet(key) # {}] @@ EnterSession(loc[p]))
    /\ UNCHANGED <<categories, expenses, cache, hist, calls>>

\* A _resolve_and_cache that caches only an id other than the fallback.
ClfCacheCommitChosenOnly(p) ==
    /\ pc[p] = "clf_cache_commit"
    /\ LET key == hash(normalize_for_hash(loc[p].args.tx))
           cat_id == loc[p].cat_id
       IN /\ cache' = IF cat_id = loc[p].other_id THEN cache
                      ELSE CacheUpsert(key, cat_id, loc[p].existing)
          /\ ClfReturn(p, loc[p], Ok(cat_id), loc[p].wrote,
                       Append(loc[p].steps, <<"cache_write", cat_id>>))
    /\ UNCHANGED <<categories, expenses, calls>>

\* _resolve_and_cache: Database.cache_write, the assignment or s.add and
\* s.commit(); classify returns the resolved id.
ClfCacheCommit(p) ==
    /\ pc[p] = "clf_cache_commit"
    /\ LET key == hash(normalize_for_hash(loc[p].args.tx))
           cat_id == loc[p].cat_id
       IN IF CacheCommits(key, loc[p].existing)
          THEN /\ cache' = CacheUpsert(key, cat_id, loc[p].existing)
               /\ ClfReturn(p, loc[p], Ok(cat_id), loc[p].wrote,
                             Append(loc[p].steps, <<"cache_write", cat_id>>))
          ELSE /\ cache' = cache
               /\ ClfReturn(p, loc[p], Raised("IntegrityError"),
                             loc[p].wrote, loc[p].steps)
    /\ UNCHANGED <<categories, expenses, calls>>

\* classify_batch(txs): the list comprehension starts (an empty list is
\* returned as it is).
BatchCall(p, txs) ==
    /\ Start(p)
    /\ IF txs = <<>>
       THEN ReturnWith(p, "classify_batch", [txs |-> txs], Ok(<<>>), {}, <<>>)
       ELSE Goto(p, "batch_item", [op |-> "classify_batch",
                                   batch |-> [txs |-> txs, ids |-> <<>>, steps |-> <<>>,
                                              wrote |-> {}]])
    /\ UNCHANGED <<categories, expenses, cache>>

\* classify_batch, self.classify(tx) for the next record: _lookup_cache, as
\* in ClassifyCall.
BatchItem(p) ==
    /\ pc[p] = "batch_item"
    /\ LET b == loc[p].batch
           tx == b.txs[Len(b.ids) + 1]
           cached == cache_lookup(tx)
           step == <<"cache_lookup", cached>>
       IN IF cached # None
          THEN ClfReturn(p, loc[p], Ok(cached[1]), {}, <<step>>)
          ELSE Goto(p, "clf_other", [op |-> "classify", args |-> [tx |-> tx],
                                     steps |-> <<step>>, wrote |-> {}, session |-> FALSE,
                                     batch |-> b])
    /\ UNCHANGED <<categories, expenses, cache, calls>>

\* The step of client p is a step of a classify call in progress.
ClassifyStep(p) ==
    \/ ClfOther(p)
    \/ ClfOtherCommit(p)
    \/ ClfNames(p)
    \/ ClfModel(p)
    \/ ClfResolve(p)
    \/ ClfCacheGet(p)
    \/ ClfCacheCommit(p)

\* ------------------------------------------------------------ ensure_seed

DEFAULT_SEED ==
    <<
        <<<<"g", "r", "o", "c", "e", "r", "i", "e", "s">>,
          "Supermarkets & food stores">>,
        <<<<"r", "e", "s", "t", "a", "u", "r", "a", "n", "t", "s">>,
          "Dining & take-away">>,
        <<<<"t", "r", "a", "n", "s", "p", "o", "r", "t", "a", "t", "i", "o", "n">>,
          "Taxis, rideshare, public transit">>,
        <<<<"u", "t", "i", "l", "i", "t", "i", "e", "s">>,
          "Electricity, water, internet, phone">>,
        <<<<"e", "n", "t", "e", "r", "t", "a", "i", "n", "m", "e", "n", "t">>,
          "Movies, events, streaming">>,
        <<<<"p", "e", "t", "s">>,
          "Pet stores, vet, dog food">>,
        <<<<"h", "e", "a", "l", "t", "h">>,
          "Pharmacy, clinics, sports">>,
        <<<<"s", "h", "o", "p", "p", "i", "n", "g">>,
          "Retail & online shopping">>,
        <<<<"s", "u", "b", "s", "c", "r", "i", "p", "t", "i", "o", "n", "s">>,
          "Recurring services and memberships">>,
        <<<<"o", "t", "h", "e", "r">>,
          "Everything else / fallback">>
    >>

\* A vocabulary of the user's own: two spellings of one name, and a name
\* with a non-ASCII letter.
CUSTOM_SEED ==
    <<
        <<<<"P", "e", "t", "s">>, "Animals">>,
        <<<<"p", "e", "t", "s">>, "Pet stores">>,
        <<<<"c", "a", "f", "e_acute">>, "Coffee">>
    >>

\* A short vocabulary: two entries of the default one.
SHORT_SEED ==
    <<
        <<<<"p", "e", "t", "s">>, "Pet stores, vet, dog food">>,
        <<<<"o", "t", "h", "e", "r">>, "Everything else / fallback">>
    >>

\* A vocabulary that spells the fallback category with a capital.
CAPS_SEED ==
    <<
        <<<<"O", "t", "h", "e", "r">>, "Miscellaneous">>,
        <<<<"P", "e", "t", "s">>, "Animals">>
    >>

Seeds == {DEFAULT_SEED, CUSTOM_SEED}

\* An ensure_seed that adds the whole seed, whatever is stored.
ToAddAll(seed) == seed

\* ensure_seed, its SELECT: the entries of seed whose lower-cased name is not
\* the lower-cased name of a stored category.
ToAdd(seed) ==
    LET existing == {PyLower(c.name) : c \in categories}
    IN SelectSeq(seed, LAMBDA e : PyLower(e[1]) \notin existing)

\* The rows s.add_all(to_add) inserts, with consecutive ids.
SeedRows(to_add) ==
    {Category(NextId(categories) + i - 1, to_add[i][1], to_add[i][2]) : i \in 1..Len(to_add)}

\* The UNIQUE index on name accepts the rows of to_add: no name is stored
\* already and no name comes twice.
SeedUnique(to_add) ==
    /\ \A i \in 1..Len(to_add) : NameUnique(to_add[i][1])
    /\ \A i, j \in 1..Len(to_add) : to_add[i][1] = to_add[j][1] => i = j

\* ensure_seed, up to its SELECT.
SeedCall(p, seed) ==
    /\ Start(p)
    /\ IF ToAdd(seed) # <<>>
       THEN Goto(p, "seed_commit", [op |-> "ensure_seed", args |-> seed, to_add |-> ToAdd(seed)])
       ELSE Return(p, "ensure_seed", seed, Ok(None), {})
    /\ UNCHANGED <<categories, expenses, cache>>

\* ensure_seed, s.add_all(to_add); s.commit(): one transaction, which inserts
\* every row or (IntegrityError) none.
SeedCommit(p) ==
    /\ pc[p] = "seed_commit"
    /\ IF SeedUnique(loc[p].to_add)
       THEN /\ categories' = categories \cup SeedRows(loc[p].to_add)
            /\ Return(p, "ensure_seed", loc[p].args, Ok(None), SeedRows(loc[p].to_add))
       ELSE /\ categories' = categories
            /\ Return(p, "ensure_seed", loc[p].args, Raised("IntegrityError"), {})
    /\ UNCHANGED <<expenses, cache, calls>>

\* ------------------------------------------------------------- queries

\* Expense.date.between(start, end)
InRange(e, start, end) == start <= e.date /\ e.date <= end

\* r comes before q under ORDER BY date, id in the direction of order.
BeforeByDateId(r, q, order) ==
    IF order = "DESC"
    THEN r.date > q.date \/ (r.date = q.date /\ r.id > q.id)
    ELSE r.date < q.date \/ (r.date = q.date /\ r.id < q.id)

RECURSIVE OrderByDateId(_, _)
OrderByDateId(rows, order) ==
    IF rows = {} THEN <<>>
    ELSE LET r == CHOOSE r \in rows : \A q \in rows : q = r \/ BeforeByDateId(r, q, order)
         IN <<r>> \o OrderByDateId(rows \ {r}, order)

\* stmt.limit(limit).offset(offset), applied when limit is not None.
LimitOffset(rows, limit, offset) ==
    IF limit = None THEN rows
    ELSE SubSeq(rows, offset + 1, Min({Len(rows), offset + limit[1]}))

\* ExpenseRepo.between: the expenses in the range (of the category, when one
\* is given) joined with their category, ordered by date and id.
between(start, end, category_id, limit, offset, order) ==
    LET rows == {[id |-> e.id, date |-> e.date, amount |-> e.amount,
                  description |-> e.description, category_id |-> e.category_id,
                  category_name |-> c.name] :
                 <<e, c>> \in {x \in expenses \X categories :
                                 /\ x[2].id = x[1].category_id
                                 /\ InRange(x[1], start, end)
                                 /\ category_id # None => x[1].category_id = category_id[1]}}
    IN LimitOffset(OrderByDateId(rows, order), limit, offset)

\* func.sum(Expense.amount) over rows: NULL when there is no row.
RECURSIVE Total(_)
Total(rows) ==
    IF rows = {} THEN 0
    ELSE LET r == CHOOSE r \in rows : TRUE IN r.amount + Total(rows \ {r})

SqlSum(rows) == IF rows = {} THEN None ELSE Some(Total(rows))

\* func.coalesce(x, 0.0), and float(x or 0.0).
Coalesce(x) == IF x = None THEN 0 ELSE x[1]

\* ExpenseRepo.sum_for_category
sum_for_category(category_id, start, end) ==
    Coalesce(SqlSum({e \in expenses : e.category_id = category_id /\ InRange(e, start, end)}))

\* An ORDER BY total, name DESC.
BeforeByTotalNameDesc(r, q, order) ==
    IF r.total # q.total
    THEN (IF order = "asc" THEN r.total < q.total ELSE r.total > q.total)
    ELSE NameLess(q.category_name, r.category_name)

\* r comes before q under ORDER BY total (in the direction of order), name.
BeforeByTotal(r, q, order) ==
    IF r.total # q.total
    THEN (IF order = "asc" THEN r.total < q.total ELSE r.total > q.total)
    ELSE NameLess(r.category_name, q.category_name)

RECURSIVE OrderByTotal(_, _)
OrderByTotal(rows, order) ==
    IF rows = {} THEN <<>>
    ELSE LET r == CHOOSE r \in rows : \A q \in rows : q = r \/ BeforeByTotal(r, q, order)
         IN <<r>> \o OrderByTotal(rows \ {r}, order)

\* A totals_by_category_between that joins as without include_zero.
TotalsGroupsInner(start_date, end_date, only_active, include_zero) ==
    {c \in categories :
        /\ only_active # None => c.is_active = only_active[1]
        /\ \E e \in expenses : e.category_id = c.id /\ InRange(e, start_date, end_date)}

\* A totals_by_category_between that tests only_active for truth, so that
\* False filters like None.
TotalsGroupsTruthy(start_date, end_date, only_active, include_zero) ==
    {c \in categories :
        /\ only_active = Some(TRUE) => c.is_active
        /\ include_zero
           \/ \E e \in expenses : e.category_id = c.id /\ InRange(e, start_date, end_date)}

\* totals_by_category_between, the groups of its statement: with
\* include_zero the categories (outer join), without it the categories that
\* have an expense in the range (join); only_active filters them.
TotalsGroups(start_date, end_date, only_active, include_zero) ==
    {c \in categories :
        /\ only_active # None => c.is_active = only_active[1]
        /\ include_zero
           \/ \E e \in expenses : e.category_id = c.id /\ InRange(e, start_date, end_date)}

\* A totals_by_category_between whose totals are sums over all dates.
totals_by_category_all_dates(start_date, end_date, only_active, include_zero, order, limit, offset) ==
    LET rows == {[category_id |-> c.id, category_name |-> c.name, is_active |-> c.is_active,
                  total |-> Coalesce(SqlSum({e \in expenses : e.category_id = c.id}))] :
                 c \in TotalsGroups(start_date, end_date, only_active, include_zero)}
    IN LimitOffset(OrderByTotal(rows, order), limit, offset)

\* totals_by_category_between
totals_by_category_between(start_date, end_date, only_active, include_zero, order, limit, offset) ==
    LET rows == {[category_id |-> c.id, category_name |-> c.name, is_active |-> c.is_active,
                  total |-> Coalesce(SqlSum({e \in expenses :
                                e.category_id = c.id /\ InRange(e, start_date, end_date)}))] :
                 c \in TotalsGroups(start_date, end_date, only_active, include_zero)}
    IN LimitOffset(OrderByTotal(rows, order), limit, offset)

\* between, one SELECT.
BetweenCall(p, a) ==
    /\ Start(p)
    /\ Return(p, "between", a,
              Ok(between(a.start, a.end, a.category_id, a.limit, a.offset, a.order)), {})
    /\ UNCHANGED <<categories, expenses, cache>>

\* sum_for_category, one SELECT.
SumCall(p, a) ==
    /\ Start(p)
    /\ Return(p, "sum_for_category", a, Ok(sum_for_category(a.category_id, a.start, a.end)), {})
    /\ UNCHANGED <<categories, expenses, cache>>

\* totals_by_category_between, one SELECT.
TotalsCall(p, a) ==
    /\ Start(p)
    /\ Return(p, "totals_by_category_between", a,
              Ok(totals_by_category_between(a.start_date, a.end_date, a.only_active,
                                            a.include_zero, a.order, a.limit, a.offset)), {})
    /\ UNCHANGED <<categories, expenses, cache>>

\* A category argument that resolves a name of no category to an id of no
\* row.
DbCategoryIdNoFallback(category) ==
    IF category = None THEN None
    ELSE IF category[1] = "int" THEN Some(category[2])
    ELSE IF Matching(category[2]) # {} THEN Some(First(Matching(category[2])).id)
    ELSE Some(0)

\* Database.get_expenses_between / sum_for_category_between, the category
\* argument: None, an id <<"int", n>> taken as it is, or a name
\* <<"str", name>> resolved by resolve_category_id(name) without fallback id.
DbCategoryId(category) ==
    IF category = None THEN None
    ELSE IF category[1] = "int" THEN Some(category[2])
    ELSE Some(resolve_id(category[2], None))

\* The row get_or_create_other inserts for resolve_category_id when the
\* name matches no category and no row is like 'other'.
DbOtherInsert(category) ==
    IF category # None /\ category[1] = "str"
       /\ ResolveRow(category[2], None) = None /\ OtherRow = None
    THEN {Category(NextId(categories), OtherName, "Fallback category")}
    ELSE {}

\* Database.get_expenses_between: the statement of ExpenseRepo.between, in
\* ascending order unless order is "desc".
get_expenses_between(start_date, end_date, category, limit, offset, order) ==
    between(start_date, end_date, DbCategoryId(category), limit, offset,
            IF order = "desc" THEN "DESC" ELSE "ASC")

\* Database.sum_for_category_between
sum_for_category_between(category, start_date, end_date) ==
    sum_for_category(DbCategoryId(category)[1], start_date, end_date)

\* What the query of a Database call returns on the tables as they are.
DbResult(op, a) ==
    IF op = "sum_for_category_between"
    THEN sum_for_category_between(a.category, a.start_date, a.end_date)
    ELSE get_expenses_between(a.start_date, a.end_date, a.category, a.limit, a.offset, a.order)

\* get_expenses_between / sum_for_category_between, up to the SELECTs of
\* resolve_category_id: when the category needs no new row the statement is
\* executed and the call returns.
DbQueryCall(p, op, a) ==
    /\ Start(p)
    /\ IF DbOtherInsert(a.category) = {}
       THEN Return(p, op, a, Ok(DbResult(op, a)), {})
       ELSE Goto(p, "db_other_commit", [op |-> op, args |-> a, wrote |-> {}])
    /\ UNCHANGED <<categories, expenses, cache>>

\* get_or_create_other called by resolve_category_id: s.add(row);
\* s.commit() of 'other'.
DbOtherCommit(p) ==
    /\ pc[p] = "db_other_commit"
    /\ categories' = categories \cup DbOtherInsert(loc[p].args.category)
    /\ Goto(p, "db_query", [loc[p] EXCEPT !.wrote = DbOtherInsert(loc[p].args.category)])
    /\ UNCHANGED <<expenses, cache, hist, calls>>

\* The statement of the call is executed with the id of the new row.
DbQuery(p) ==
    /\ pc[p] = "db_query"
    /\ Return(p, loc[p].op, loc[p].args, Ok(DbResult(loc[p].op, loc[p].args)), loc[p].wrote)
    /\ UNCHANGED <<categories, expenses, cache, calls>>

\* An ORDER BY of list_recent that leaves the amount out.
BeforeRecentNoAmount(r, q) ==
    r.date > q.date \/ (r.date = q.date /\ r.id > q.id)

\* r comes before q under ORDER BY date DESC, amount DESC, id DESC.
BeforeRecent(r, q) ==
    \/ r.date > q.date
    \/ r.date = q.date /\ r.amount > q.amount
    \/ r.date = q.date /\ r.amount = q.amount /\ r.id > q.id

RECURSIVE OrderRecent(_)
OrderRecent(rows) ==
    IF rows = {} THEN <<>>
    ELSE LET r == CHOOSE r \in rows : \A q \in rows : q = r \/ BeforeRecent(r, q)
         IN <<r>> \o OrderRecent(rows \ {r})

\* Category.name of the outer join: NULL for an expense without category.
CategoryNameOf(e) ==
    IF \E c \in categories : c.id = e.category_id
    THEN Some((CHOOSE c \in categories : c.id = e.category_id).name)
    ELSE None

\* The dict list_recent makes of a row (created_at, which no operation
\* reads, left out).
RecentDict(e) ==
    [date |-> isoformat(e.date), description |-> e.description, amount |-> e.amount,
     category |-> CategoryNameOf(e)]

\* ExpenseRepo.list_recent
list_recent(limit, offset, since) ==
    LET rows == OrderRecent({e \in expenses : since # None => e.date >= since[1]})
        page == LimitOffset(rows, Some(limit), offset)
    IN [k \in 1..Len(page) |-> RecentDict(page[k])]

\* list_recent, one SELECT.
ListRecentCall(p, a) ==
    /\ Start(p)
    /\ Return(p, "list_recent", a, Ok(list_recent(a.limit, a.offset, a.since)), {})
    /\ UNCHANGED <<categories, expenses, cache>>

\* ------------------------------------------------- deleting a category

\* SQLite enforces foreign keys only on a connection that has run PRAGMA
\* foreign_keys=ON; _apply_sqlite_pragmas sets four pragmas, not this one.
ForeignKeys == FALSE

\* s.delete(category); s.commit() for the category with this id.  The
\* relationship Category.expenses has cascade="all, delete-orphan" and
\* passive_deletes=True: the expenses of the category that the session has
\* loaded are deleted with it, the others are left to the database, whose
\* ON DELETE RESTRICT holds only when foreign keys are enforced.
DeleteCategory(p, id, loaded) ==
    /\ Start(p)
    /\ \E c \in categories : c.id = id
    /\ LET a == [id |-> id, loaded |-> loaded]
           row == CHOOSE c \in categories : c.id = id
           children == {e \in expenses : e.category_id = id}
           left == IF loaded THEN {} ELSE children
       IN IF ForeignKeys /\ left # {}
          THEN /\ categories' = categories
               /\ expenses' = expenses
               /\ Return(p, "delete_category", a, Raised("IntegrityError"), {})
          ELSE /\ categories' = categories \ {row}
               /\ expenses' = expenses \ (children \ left)
               /\ Return(p, "delete_category", a, Ok(None), {})
    /\ UNCHANGED cache

\* ------------------------------------------------------- specifications

\* The category table after ensure_seed(s, seed) on a fresh database.
Seeded(seed) == {Category(i, seed[i][1], seed[i][2]) : i \in 1..Len(seed)}

\* A database whose category table is one of `tables`, and clients that may
\* start n calls.
InitWith(tables, n) ==
    /\ categories \in tables
    /\ expenses = {}
    /\ cache = {}
    /\ pc = [p \in Procs |-> "idle"]
    /\ loc = [p \in Procs |-> Idle]
    /\ hist = <<>>
    /\ calls = n

\* The names resolve_id is called with.
ResolveNames ==
    {OtherName, <<"p", "e", "t", "s">>, <<"P", "e", "t", "s">>, <<"c", "a", "f", "e_acute">>, <<"C", "A", "F", "E_acute">>, <<"C", "A", "F", "e_acute">>,
     <<"%">>, <<"p", "_", "t", "s">>, <<"N", "o", "n", "e", "x", "i", "s", "t", "e", "n", "t">>}

\* The fallback ids resolve_id is called with.
Fallbacks == {None, Some(5)}

\* The records the cache and the classifier are called with: one record in
\* two key orders, and another record.
TxA == Dict(<< <<"date", JsonStr(isoformat(1))>>, <<"description", JsonStr("ICA")>>,
               <<"amount", JsonFloat(5)>> >>)
TxAReordered == Dict(<< <<"amount", JsonFloat(5)>>, <<"description", JsonStr("ICA")>>,
                        <<"date", JsonStr(isoformat(1))>> >>)
TxB == Dict(<< <<"date", JsonStr(isoformat(2))>>, <<"description", JsonStr("ICA")>>,
               <<"amount", JsonFloat(5)>> >>)
Txs == {TxA, TxAReordered, TxB}

\* The category ids write is called with.
CacheIds == {1, 2}

\* The classification cache used by two clients at once.
NextCache ==
    \E p \in Procs :
        \/ \E tx \in Txs : CacheLookupCall(p, tx)
        \/ \E tx \in Txs, c \in CacheIds : CacheWriteCall(p, tx, c)
        \/ CacheWriteCommit(p)

InitCache == InitWith({{}}, MaxCacheCalls)

SpecCache == InitCache /\ [][NextCache]_vars

\* One client classifies records, and categories are added in between.  The
\* categories are the short vocabulary, or none at all: the table without
\* 'other' that get_or_create_other is written for.
NextClassifySeq ==
    \/ \E tx \in Txs : ClassifyCall("p1", tx)
    \/ ClassifyStep("p1")
    \/ SeedCall("p1", CUSTOM_SEED)
    \/ SeedCommit("p1")

InitClassifySeq == InitWith({{}, Seeded(SHORT_SEED)}, MaxClassifyCalls)

SpecClassifySeq == InitClassifySeq /\ [][NextClassifySeq]_vars

\* The category store on a fresh database: ensure_seed, get_or_create_other
\* and resolve_id, called by two clients.
NextCategory ==
    \E p \in Procs :
        \/ \E seed \in Seeds : SeedCall(p, seed)
        \/ SeedCommit(p)
        \/ OtherCall(p)
        \/ OtherCommit(p)
        \/ \E name \in ResolveNames, f \in Fallbacks : ResolveCall(p, name, f)
        \/ ResolveOther(p)

\* A fresh database (Base.metadata.create_all).
InitCategory == InitWith({{}}, MaxCategoryCalls)

SpecCategory == InitCategory /\ [][NextCategory]_vars

\* The limits active_names_with_other is called with.
Limits == {1, 3, 50}

\* The category store on a fresh database, used by one client, call after
\* call.
NextCategorySeq ==
    \/ \E seed \in {DEFAULT_SEED, CAPS_SEED} : SeedCall("p1", seed)
    \/ SeedCommit("p1")
    \/ OtherCall("p1")
    \/ OtherCommit("p1")
    \/ \E limit \in Limits : NamesCall("p1", limit)
    \/ NamesOtherCommit("p1")
    \/ NamesSelect("p1")

InitCategorySeq == InitWith({{}}, MaxCategorySeqCalls)

SpecCategorySeq == InitCategorySeq /\ [][NextCategorySeq]_vars

\* Raw payloads: one dict in two key orders, and another dict.
RawA == Dict(<< <<"date", JsonStr(isoformat(1))>>, <<"amount", JsonInt(5)>> >>)
RawAReordered == Dict(<< <<"amount", JsonInt(5)>>, <<"date", JsonStr(isoformat(1))>> >>)
RawB == Dict(<< <<"date", JsonStr(isoformat(2))>>, <<"amount", JsonInt(5)>> >>)

\* The calls of ExpenseRepo.add ("repo") and Database.add_expense ("db")
\* with a raw payload of raws.
AddInputs(raws) ==
    [api : {"repo", "db"}, date : {1}, amount : {5}, description : {Some("ICA")},
     category_id : {1}, raw : raws, dedupe_on_hash : BOOLEAN]

ItemPets == [date |-> 1, description |-> "ICA", amount |-> 5, category_id |-> None,
             category |-> Some(<<"p", "e", "t", "s">>)]
ItemPetsCap == [ItemPets EXCEPT !.category = Some(<<"P", "e", "t", "s">>)]
ItemNoCategory == [ItemPets EXCEPT !.category = None]
ItemById == [ItemPets EXCEPT !.category = None, !.category_id = Some(6)]
ItemByPetsId == [ItemPets EXCEPT !.category = None, !.category_id = Some(1)]

\* One client's steps on the expense store, its add calls with a raw
\* payload of raws and its save_expenses calls with a batch of batches.
ExpenseStep(p, raws, batches) ==
    \/ \E a \in AddInputs(raws) : AddCall(p, a)
    \/ AddCommit(p)
    \/ \E items \in batches, d \in BOOLEAN : SaveCall(p, items, d)
    \/ SaveOtherCommit(p)
    \/ SaveItem(p)
    \/ SaveCommit(p)

\* A fresh database, or one seeded with a short vocabulary.
InitExpense == InitWith({{}, Seeded(SHORT_SEED)}, MaxExpenseCalls)

\* The expense store used by two clients at once.
NextExpense ==
    \E p \in Procs :
        ExpenseStep(p, {None, RawA, RawAReordered},
                    {<<ItemPets, ItemPets>>, <<ItemPetsCap, ItemNoCategory>>})

SpecExpense == InitExpense /\ [][NextExpense]_vars

\* The expense store used by one client, call after call.
NextExpenseSeq ==
    ExpenseStep("p1", {None, Dict(<<>>), RawA, RawAReordered, RawB},
                {<<ItemPets>>, <<ItemPets, ItemPets>>, <<ItemPetsCap, ItemPets>>,
                 <<ItemNoCategory, ItemById>>, <<ItemPets, ItemByPetsId>>})

SpecExpenseSeq == InitExpense /\ [][NextExpenseSeq]_vars

\* One client stores expenses under the categories of the short vocabulary
\* and deletes categories.
NextDelete ==
    \/ \E a \in AddInputs({None, RawA}) : AddCall("p1", a)
    \/ AddCommit("p1")
    \/ \E id \in {1, 2}, loaded \in BOOLEAN : DeleteCategory("p1", id, loaded)

InitDelete == InitWith({Seeded(SHORT_SEED)}, MaxDeleteCalls)

SpecDelete == InitDelete /\ [][NextDelete]_vars

\* The expenses of a database in use: two of one day under 'pets' and
\* 'other', and one of the next day under 'pets'.
StoredExpenses ==
    {Expense(1, 1, 5, "ICA", 1, None), Expense(2, 1, 3, "ICA", 2, None),
     Expense(3, 2, 7, "ICA", 1, None)}

\* The add calls of the query specification: an expense of the first day
\* under 'pets', and one of the second day under a category id that no
\* category has.
QueryAdds ==
    {[api |-> "repo", date |-> 1, amount |-> 4, description |-> Some("ICA"),
      category_id |-> 1, raw |-> None, dedupe_on_hash |-> TRUE],
     [api |-> "repo", date |-> 2, amount |-> 2, description |-> Some("ICA"),
      category_id |-> 6, raw |-> None, dedupe_on_hash |-> TRUE]}

\* The calls of the queries: ranges of one day, of two days and of a day
\* without expenses; the categories 'pets' (1), 'other' (2) and the id 6 of
\* no category.
BetweenInputs ==
    {[start |-> r[1], end |-> r[2], category_id |-> c, limit |-> None, offset |-> 0,
      order |-> o] :
     r \in {<<1, 2>>, <<2, 2>>}, c \in {None, Some(1), Some(6)}, o \in {"ASC", "DESC"}}

SumInputs ==
    {[category_id |-> c, start |-> r[1], end |-> r[2]] :
     c \in {1, 6}, r \in {<<1, 2>>, <<3, 3>>}}

TotalsInputs ==
    {[start_date |-> 2, end_date |-> 2, only_active |-> a, include_zero |-> z,
      order |-> "desc", limit |-> None, offset |-> 0] :
     a \in {Some(TRUE), None}, z \in BOOLEAN}

\* One client stores expenses and queries them.
NextQuery ==
    \/ \E a \in QueryAdds : AddCall("p1", a)
    \/ AddCommit("p1")
    \/ \E a \in BetweenInputs : BetweenCall("p1", a)
    \/ \E a \in SumInputs : SumCall("p1", a)
    \/ \E a \in TotalsInputs : TotalsCall("p1", a)

\* A database seeded with the short vocabulary, empty or in use.
InitQuery ==
    /\ categories = Seeded(SHORT_SEED)
    /\ expenses \in {{}, StoredExpenses}
    /\ cache = {}
    /\ pc = [p \in Procs |-> "idle"]
    /\ loc = [p \in Procs |-> Idle]
    /\ hist = <<>>
    /\ calls = MaxQueryCalls

SpecQuery == InitQuery /\ [][NextQuery]_vars

\* A category that has been retired: is_active is a column of the table
\* that the reports filter on, and that an administrator changes in place.
RetiredCategory ==
    [Category(3, <<"g", "y", "m">>, "Gym membership") EXCEPT !.is_active = FALSE]

\* The add calls of the report specification: an expense of the first day,
\* of the amount of a stored one, under the retired category, and one of the
\* second day under 'other'.
ReportAdds ==
    {[api |-> "repo", date |-> 1, amount |-> 5, description |-> Some("SATS"),
      category_id |-> 3, raw |-> None, dedupe_on_hash |-> TRUE],
     [api |-> "repo", date |-> 2, amount |-> 1, description |-> Some("Coop"),
      category_id |-> 2, raw |-> None, dedupe_on_hash |-> TRUE]}

ReportTotalsInputs ==
    {[start_date |-> 1, end_date |-> r, only_active |-> a, include_zero |-> z,
      order |-> "desc", limit |-> None, offset |-> 0] :
     r \in {1, 2}, a \in {Some(TRUE), Some(FALSE), None}, z \in BOOLEAN}

RecentInputs ==
    {[limit |-> l, offset |-> o, since |-> d] :
     l \in {2, DefaultLimit}, o \in {0, 1}, d \in {None, Some(2)}}

\* One client stores expenses and reads the reports.
NextReport ==
    \/ \E a \in ReportAdds : AddCall("p1", a)
    \/ AddCommit("p1")
    \/ \E a \in ReportTotalsInputs : TotalsCall("p1", a)
    \/ \E a \in RecentInputs : ListRecentCall("p1", a)

\* A database seeded with the short vocabulary and a retired category,
\* empty or in use.
InitReport ==
    /\ categories = Seeded(SHORT_SEED) \cup {RetiredCategory}
    /\ expenses \in {{}, StoredExpenses}
    /\ cache = {}
    /\ pc = [p \in Procs |-> "idle"]
    /\ loc = [p \in Procs |-> Idle]
    /\ hist = <<>>
    /\ calls = MaxReportCalls

SpecReport == InitReport /\ [][NextReport]_vars

\* hash(text) called by a client.
HashCall(p, text) ==
    /\ Start(p)
    /\ Return(p, "hash", [text |-> text], Ok(hash(text)), {})
    /\ UNCHANGED <<categories, expenses, cache>>

\* Records to hash: one in two key orders, one with the amount as an int,
\* one of another amount, one with a further key, and records that nest a
\* record, in two key orders at the inner level and with an inner value
\* changed.
HashInputs ==
    LET Rec(amount) == Dict(<<<<"amount", amount>>, <<"description", JsonStr("ICA")>>>>)
        Inner == Rec(JsonFloat(5))
        InnerReordered == Dict(<<<<"description", JsonStr("ICA")>>, <<"amount", JsonFloat(5)>>>>)
        InnerInt == Rec(JsonInt(5))
        InnerOther == Rec(JsonFloat(7))
        InnerMore == Dict(<<<<"amount", JsonFloat(5)>>, <<"description", JsonStr("ICA")>>,
                            <<"category", JsonNull>>>>)
        Nested(inner) == Dict(<<<<"date", JsonStr("d1")>>, <<"category", inner>>>>)
        NestedReordered(inner) == Dict(<<<<"category", inner>>, <<"date", JsonStr("d1")>>>>)
    IN {Inner, InnerReordered, InnerInt, InnerOther, InnerMore,
        Nested(Inner), Nested(InnerReordered), NestedReordered(Inner),
        NestedReordered(InnerReordered), Nested(InnerInt), Nested(InnerOther)}

NextHash == \E text \in HashInputs : HashCall("p1", text)

InitHash == InitWith({Seeded(SHORT_SEED)}, MaxHashCalls)

SpecHash == InitHash /\ [][NextHash]_vars

\* The batches classify_batch is called with.
Batches == {<<TxA, TxB>>, <<TxA, TxAReordered>>, <<TxB>>, <<>>}

\* One client classifies batches of records.
NextBatch ==
    \/ \E txs \in Batches : BatchCall("p1", txs)
    \/ BatchItem("p1")
    \/ ClassifyStep("p1")

InitBatch == InitWith({{}, Seeded(SHORT_SEED)}, MaxBatchCalls)

SpecBatch == InitBatch /\ [][NextBatch]_vars

\* Two clients classify one record, in either key order, at once.
NextClassify ==
    \E p \in Procs :
        \/ \E tx \in {TxA, TxAReordered} : ClassifyCall(p, tx)
        \/ ClassifyStep(p)

InitClassify == InitWith({{}, Seeded(SHORT_SEED)}, MaxClassifyRaceCalls)

SpecClassify == InitClassify /\ [][NextClassify]_vars

\* The requests of the handler: items of two days under 'pets', one of them
\* also with a date that is no date, alone and after a good item.
HandlerRequests ==
    LET Good(d) == [date |-> isoformat(d), description |-> "ICA", amount |-> 5,
                    category |-> Some(<<"p", "e", "t", "s">>), category_id |-> None]
        Bad == [Good(1) EXCEPT !.date = <<"text", "yesterday">>]
    IN {<<Good(1)>>, <<Good(1), Good(2)>>, <<Good(1), Bad>>, <<Bad, Good(1)>>}

\* Two clients send save-expenses requests.
NextHandler ==
    \E p \in Procs :
        \/ \E r \in HandlerRequests : HandlerCall(p, r)
        \/ HandlerOtherCommit(p)
        \/ HandlerItem(p)
        \/ HandlerCommit(p)

InitHandler == InitWith({{}, Seeded(SHORT_SEED)}, MaxHandlerCalls)

SpecHandler == InitHandler /\ [][NextHandler]_vars

\* The pages asked of between and of the totals: both orders, with and
\* without a limit and an offset.
PageBetweenInputs ==
    {[start |-> 1, end |-> 2, category_id |-> None, limit |-> l, offset |-> o, order |-> d] :
     l \in {None, Some(1), Some(2)}, o \in {0, 1}, d \in {"ASC", "DESC"}}

PageTotalsInputs ==
    {[start_date |-> 2, end_date |-> 2, only_active |-> None, include_zero |-> z,
      order |-> d, limit |-> l, offset |-> o] :
     l \in {None, Some(1), Some(2)}, o \in {0, 1}, d \in {"asc", "desc"}, z \in BOOLEAN}

\* One client reads pages over the stored expenses of a database that has a
\* retired category (so that two totals are 0).
NextPage ==
    \/ \E a \in PageBetweenInputs : BetweenCall("p1", a)
    \/ \E a \in PageTotalsInputs : TotalsCall("p1", a)

InitPage ==
    /\ categories = Seeded(SHORT_SEED) \cup {RetiredCategory}
    /\ expenses = StoredExpenses
    /\ cache = {}
    /\ pc = [p \in Procs |-> "idle"]
    /\ loc = [p \in Procs |-> Idle]
    /\ hist = <<>>
    /\ calls = MaxPageCalls

SpecPage == InitPage /\ [][NextPage]_vars

\* The category arguments of the Database queries: no category, an id, the
\* name of a category in another case, and a name of no category.
DbCategories ==
    {None, <<"int", 1>>, <<"str", <<"P", "e", "t", "s">>>>, <<"str", NotOffered>>}

DbBetweenInputs ==
    {[start_date |-> r[1], end_date |-> r[2], category |-> c, limit |-> None, offset |-> 0,
      order |-> o] :
     c \in DbCategories, r \in {<<1, 2>>, <<2, 2>>}, o \in {"asc", "desc"}}

DbSumInputs ==
    {[category |-> c, start_date |-> r[1], end_date |-> r[2]] :
     c \in DbCategories \ {None}, r \in {<<1, 2>>, <<2, 2>>}}

\* One client queries the Database by category.  The database has the short
\* vocabulary, or 'pets' alone and no 'other'.
NextDbQuery ==
    \/ \E a \in DbBetweenInputs : DbQueryCall("p1", "get_expenses_between", a)
    \/ \E a \in DbSumInputs : DbQueryCall("p1", "sum_for_category_between", a)
    \/ DbOtherCommit("p1")
    \/ DbQuery("p1")

InitDbQuery ==
    /\ categories \in {Seeded(SHORT_SEED), {c \in Seeded(SHORT_SEED) : c.name # OtherName}}
    /\ expenses = {e \in StoredExpenses : \E c \in categories : c.id = e.category_id}
    /\ cache = {}
    /\ pc = [p \in Procs |-> "idle"]
    /\ loc = [p \in Procs |-> Idle]
    /\ hist = <<>>
    /\ calls = MaxDbQueryCalls

SpecDbQuery == InitDbQuery /\ [][NextDbQuery]_vars

\* ------------------------------------------------------------------ claims

\* The last call that returned.
LastReturn == hist[Len(hist)]

\* The step is the return of a call.
Returns == Len(hist') = Len(hist) + 1

\* The calls of ExpenseRepo.add in the history.
RepoAdds == {i \in 1..Len(hist) : hist[i].op = "add" /\ hist[i].args.api = "repo"}

\* Two add calls, the first returned before the second started, with
\* dedupe_on_hash=True and the same raw payload.
SameRawTwice(i, j) ==
    /\ i < j
    /\ hist[i].args.dedupe_on_hash /\ hist[j].args.dedupe_on_hash
    /\ hist[i].args.raw # None
    /\ hist[i].args.raw = hist[j].args.raw

\* Both calls returned the same id, and one row holds the payload's hash.
SameIdOneRow(i, j) ==
    /\ hist[i].res[1] = "ok"
    /\ hist[j].res = hist[i].res
    /\ Cardinality({e \in expenses : e.hash = hash(hist[i].args.raw)}) = 1

C2_HashUnique ==
    \A e1, e2 \in expenses : e1.hash # None /\ e1.hash = e2.hash => e1.id = e2.id

\* C2 witness: two rows with different hashes are stored, and an insert of
\* a stored hash has been refused.
C2_Witness ==
    /\ \E e1, e2 \in expenses : e1.hash # None /\ e2.hash # None /\ e1.hash # e2.hash
    /\ \E i \in 1..Len(hist) : hist[i].res = Raised("IntegrityError")

\* An add call that looks for its payload's hash before it inserts.
DedupeAdds == {i \in 1..Len(hist) : hist[i].op = "add" /\ LooksUp(hist[i].args)}

\* C3 as stated: of two add calls with the same raw payload and dedupe
\* enabled, the one that did not insert the row (also when it lost the race
\* for the INSERT) returns the id of the row the other inserted, and no
\* error reaches its caller.
C3_RaceLoserReturnsId ==
    \A i, j \in DedupeAdds :
        /\ i # j
        /\ HashVal(hist[i].args) = HashVal(hist[j].args)
        /\ hist[i].wrote # {}
        => hist[j].res = hist[i].res

\* A stored category is named 'other' in some letter case.
HasOther == \E c \in categories : PyLower(c.name) = OtherName

\* C11: a get_or_create_other call made after other calls have returned
\* returns an id, the id every earlier get_or_create_other returned; it
\* inserts at most one row, and none when an earlier call was made or when a
\* category named 'other' in some letter case is stored, whose id it returns.
C11_OtherIdempotent ==
    [][Returns /\ hist'[Len(hist')].op = "get_or_create_other" =>
        LET h == hist'[Len(hist')]
        IN /\ h.res[1] = "ok"
           /\ Cardinality(h.wrote) <= 1
           /\ categories' = categories \cup h.wrote
           /\ HasOther =>
                /\ h.wrote = {}
                /\ \E c \in categories : PyLower(c.name) = OtherName /\ h.res = Ok(c.id)
           /\ \A i \in 1..Len(hist) : hist[i].op = "get_or_create_other" =>
                /\ hist[i].res = h.res
                /\ h.wrote = {}]_vars

\* C11 witness: get_or_create_other inserted 'other' on the empty table and
\* a second call returned the same id without a row.
C11_Witness ==
    /\ Len(hist) = 2
    /\ hist[1].op = "get_or_create_other" /\ Cardinality(hist[1].wrote) = 1
    /\ hist[2].op = "get_or_create_other" /\ hist[2].wrote = {}
    /\ hist[2].res = hist[1].res
    /\ Cardinality(categories) = 1

\* C11, the case of another spelling: ensure_seed stored 'Other', and
\* get_or_create_other returned its id without a row.
C11_WitnessCase ==
    /\ Len(hist) = 2
    /\ hist[1].op = "ensure_seed" /\ hist[1].args = CAPS_SEED
    /\ hist[2].op = "get_or_create_other" /\ hist[2].wrote = {}
    /\ \E c \in categories : c.name = <<"O", "t", "h", "e", "r">> /\ hist[2].res = Ok(c.id)
    /\ \A c \in categories : c.name # OtherName

\* C12: the name list every active_names_with_other call returns holds a
\* name that is 'other' in lower case, whatever the categories and the
\* limit (at least 1).
C12_NamesIncludeOther ==
    \A i \in 1..Len(hist) :
        (hist[i].op = "active_names_with_other" /\ hist[i].res[1] = "ok")
        => \E k \in 1..Len(hist[i].res[2][1]) : PyLower(hist[i].res[2][1][k]) = OtherName

\* The names of the default vocabulary.
DefaultNames == {DEFAULT_SEED[i][1] : i \in 1..Len(DEFAULT_SEED)}

\* The default names that no stored category has, ignoring case.
MissingDefaults ==
    {n \in DefaultNames : \A c \in categories : PyLower(c.name) # PyLower(n)}

\* C13: ensure_seed with the default vocabulary returns without an error,
\* leaves every stored category row as it is, adds one row for each default
\* name that no stored category has ignoring case, and nothing else; after
\* it no default name is missing, and a second run adds no row.
C13_SeedIdempotent ==
    [][(Returns /\ hist'[Len(hist')].op = "ensure_seed"
                /\ hist'[Len(hist')].args = DEFAULT_SEED) =>
        LET h == hist'[Len(hist')]
            added == categories' \ categories
        IN /\ h.res = Ok(None)
           /\ categories \subseteq categories'
           /\ h.wrote = added
           /\ {c.name : c \in added} = MissingDefaults
           /\ Cardinality(added) = Cardinality(MissingDefaults)
           /\ MissingDefaults' = {}
           /\ \A i \in 1..Len(hist) :
                (hist[i].op = "ensure_seed" /\ hist[i].args = DEFAULT_SEED) => added = {}]_vars

\* C13 witness: on a table that held 'Other' and 'Pets', ensure_seed added
\* the eight other default names, and a second run added nothing.
C13_Witness ==
    /\ Len(hist) = 3
    /\ hist[1].op = "ensure_seed" /\ hist[1].args = CAPS_SEED
    /\ hist[2].op = "ensure_seed" /\ hist[2].args = DEFAULT_SEED
    /\ Cardinality(hist[2].wrote) = 8
    /\ hist[3].op = "ensure_seed" /\ hist[3].args = DEFAULT_SEED
    /\ hist[3].wrote = {}
    /\ Cardinality(categories) = 10
    /\ hist[1].wrote \subseteq categories

\* C14: no two stored categories have names that are equal ignoring case.
C14_NamesUniqueIgnoringCase ==
    \A c, d \in categories : PyLower(c.name) = PyLower(d.name) => c = d

\* C15: deleting a category that an expense refers to raises an error and
\* leaves the categories and the expenses as they were.
C15_DeleteRestricted ==
    [][(Returns /\ hist'[Len(hist')].op = "delete_category"
                /\ \E e \in expenses : e.category_id = hist'[Len(hist')].args.id) =>
        /\ hist'[Len(hist')].res[1] = "raised"
        /\ categories' = categories
        /\ expenses' = expenses]_vars

\* C16: a save_expenses call that raised has left none of the expense rows
\* it created.
C16_SaveAllOrNothing ==
    \A i \in 1..Len(hist) :
        (hist[i].op = "save_expenses" /\ hist[i].res[1] = "raised")
        => hist[i].wrote \cap expenses = {}

\* The category of the table cats an item is to be stored under: the id it
\* names, else the first category its name matches, else 'other'.
ExpectedCategory(cats, item) ==
    IF item.category_id # None THEN item.category_id[1]
    ELSE IF item.category # None /\ \E c \in cats : ILike(c.name, item.category[1])
         THEN Min({c.id : c \in {d \in cats : ILike(d.name, item.category[1])}})
         ELSE Min({c.id : c \in {d \in cats : ILike(d.name, OtherName)}})

\* C17: a save_expenses call that returns gives one id per item, in the
\* order of the items: the i-th id is that of a stored expense with the
\* date, amount and description of item i and the category resolved for it,
\* and with deduplication equal items get equal ids.
C17_SaveIdsInOrder ==
    [][(Returns /\ hist'[Len(hist')].op = "save_expenses"
                /\ hist'[Len(hist')].res[1] = "ok") =>
        LET h == hist'[Len(hist')]
            items == h.args.items
        IN /\ Len(h.res[2]) = Len(items)
           /\ \A i \in 1..Len(items) :
                \E e \in expenses' :
                    /\ e.id = h.res[2][i]
                    /\ e.date = items[i].date
                    /\ e.amount = items[i].amount
                    /\ e.description = items[i].description
                    /\ e.category_id = ExpectedCategory(categories', items[i])
           /\ \A i, j \in 1..Len(items) :
                (h.args.dedupe_on_hash /\ items[i] = items[j])
                => h.res[2][i] = h.res[2][j]]_vars

\* C17 witness: save_expenses([Pets item, item without category]) stored
\* one expense under 'pets' and one under 'other' and returned their ids in
\* order, and a call with the pets item twice returned one new id twice.
C17_Witness ==
    /\ Len(hist) = 2
    /\ hist[1].op = "save_expenses" /\ hist[1].args.items = <<ItemPetsCap, ItemNoCategory>>
    /\ hist[1].res = Ok(<<1, 2>>)
    /\ hist[2].op = "save_expenses" /\ hist[2].args.items = <<ItemPets, ItemPets>>
    /\ hist[2].args.dedupe_on_hash
    /\ hist[2].res = Ok(<<3, 3>>)
    /\ {<<e.id, e.category_id>> : e \in expenses} = {<<1, 1>>, <<2, 2>>, <<3, 1>>}

\* The stored expenses a between call with the arguments a is about: those
\* of the range, and of the category when one is given.
Wanted(a) ==
    {e \in expenses : /\ a.start <= e.date /\ e.date <= a.end
                      /\ a.category_id # None => e.category_id = a.category_id[1]}

\* The rows are in the order of (date, id), ascending or descending.
SortedByDateId(rows, order) ==
    \A k, m \in 1..Len(rows) :
        k < m => IF order = "ASC"
                 THEN \/ rows[k].date < rows[m].date
                      \/ rows[k].date = rows[m].date /\ rows[k].id < rows[m].id
                 ELSE \/ rows[k].date > rows[m].date
                      \/ rows[k].date = rows[m].date /\ rows[k].id > rows[m].id

\* C18: between without a limit returns the stored expenses of the range
\* (and of the category, when one is given), each once, with their date,
\* amount, description and category id, ordered by (date, id) in the
\* direction asked for.
C18_BetweenExact ==
    [][(Returns /\ hist'[Len(hist')].op = "between"
                /\ hist'[Len(hist')].args.limit = None) =>
        LET a == hist'[Len(hist')].args
            rows == hist'[Len(hist')].res[2]
        IN /\ Len(rows) = Cardinality(Wanted(a))
           /\ \A e \in Wanted(a) :
                \E k \in 1..Len(rows) :
                    /\ rows[k].id = e.id /\ rows[k].date = e.date
                    /\ rows[k].amount = e.amount /\ rows[k].description = e.description
                    /\ rows[k].category_id = e.category_id
           /\ SortedByDateId(rows, a.order)]_vars

\* The sum of the amounts of a sequence of rows.
RECURSIVE SumOfAmounts(_)
SumOfAmounts(rows) ==
    IF rows = <<>> THEN 0 ELSE rows[1].amount + SumOfAmounts(Tail(rows))

\* C19: sum_for_category(c, start, end) returns the sum of the amounts of
\* the rows between(start, end, category_id=c) returns without a limit, and
\* 0 when no stored expense of the category is in the range.
C19_SumMatchesBetween ==
    [][(Returns /\ hist'[Len(hist')].op = "sum_for_category") =>
        LET a == hist'[Len(hist')].args
            res == hist'[Len(hist')].res
        IN /\ res = Ok(SumOfAmounts(between(a.start, a.end, Some(a.category_id), None, 0,
                                            "DESC")))
           /\ (\A e \in expenses : ~(e.category_id = a.category_id
                                      /\ InRange(e, a.start, a.end)))
              => res = Ok(0)]_vars

\* The categories a totals_by_category_between call selects, and those of
\* them with no expense in its range.
Selected(a) ==
    {c \in categories : a.only_active # None => c.is_active = a.only_active[1]}

SelectedEmpty(a) ==
    {c \in Selected(a) :
        \A e \in expenses : ~(e.category_id = c.id /\ InRange(e, a.start_date, a.end_date))}

\* C20: with include_zero=True totals_by_category_between returns a row of
\* total 0 for every selected category that has no expense in the range;
\* with include_zero=False such a category has no row.
C20_TotalsIncludeZero ==
    [][(Returns /\ hist'[Len(hist')].op = "totals_by_category_between"
                /\ hist'[Len(hist')].args.limit = None) =>
        LET a == hist'[Len(hist')].args
            rows == hist'[Len(hist')].res[2]
        IN \A c \in SelectedEmpty(a) :
            IF a.include_zero
            THEN \E k \in 1..Len(rows) : rows[k].category_id = c.id /\ rows[k].total = 0
            ELSE \A k \in 1..Len(rows) : rows[k].category_id # c.id]_vars

\* C20 witness: over the stored expenses of day 2, a call with include_zero
\* has returned 'other' with total 0 next to 'pets' with total 7, and a call
\* without it has returned 'pets' alone.
C20_Witness ==
    \E i, j \in 1..Len(hist) :
        /\ hist[i].op = "totals_by_category_between" /\ hist[i].args.include_zero
        /\ hist[j].op = "totals_by_category_between" /\ ~hist[j].args.include_zero
        /\ Len(hist[i].res[2]) = 2
        /\ hist[i].res[2][1].total = 7
        /\ hist[i].res[2][2].total = 0
        /\ Len(hist[j].res[2]) = 1
        /\ hist[j].res[2][1].total = 7
        /\ hist[j].res[2][1].category_id = hist[i].res[2][1].category_id

\* The categories a totals_by_category_between call must report: those of
\* the kind only_active names that have an expense in the range, or all of
\* that kind with include_zero.
Reported(a) ==
    {c \in categories :
        /\ a.only_active = Some(TRUE) => c.is_active
        /\ a.only_active = Some(FALSE) => ~c.is_active
        /\ a.include_zero
           \/ \E e \in expenses : e.category_id = c.id /\ InRange(e, a.start_date, a.end_date)}

\* C21: totals_by_category_between returns only active categories with
\* only_active True, only inactive ones with False, and the categories of
\* both kinds with None, whatever include_zero is.
C21_OnlyActiveFilter ==
    [][(Returns /\ hist'[Len(hist')].op = "totals_by_category_between"
                /\ hist'[Len(hist')].args.limit = None) =>
        LET a == hist'[Len(hist')].args
            rows == hist'[Len(hist')].res[2]
        IN /\ \A k \in 1..Len(rows) :
                /\ \E c \in categories : c.id = rows[k].category_id
                                         /\ c.is_active = rows[k].is_active
                /\ a.only_active # None => rows[k].is_active = a.only_active[1]
           /\ {rows[k].category_id : k \in 1..Len(rows)} = {c.id : c \in Reported(a)}]_vars

\* C21 witness: over days 1 and 2 with include_zero, three calls have
\* returned the retired category alone (only_active False), the two active
\* ones (True) and all three (None).
C21_Witness ==
    /\ Len(hist) = 3
    /\ \A i \in 1..3 : /\ hist[i].op = "totals_by_category_between"
                       /\ hist[i].args.include_zero /\ hist[i].args.end_date = 2
    /\ hist[1].args.only_active = Some(FALSE)
    /\ {r.category_id : r \in {hist[1].res[2][k] : k \in 1..Len(hist[1].res[2])}} = {3}
    /\ hist[2].args.only_active = Some(TRUE)
    /\ {r.category_id : r \in {hist[2].res[2][k] : k \in 1..Len(hist[2].res[2])}} = {1, 2}
    /\ hist[3].args.only_active = None
    /\ {r.category_id : r \in {hist[3].res[2][k] : k \in 1..Len(hist[3].res[2])}} = {1, 2, 3}

\* The expenses list_recent(since) lists, and the place of one of them in
\* the order (date descending, amount descending, id descending).
Listed(since) == {e \in expenses : since # None => e.date >= since[1]}

RecentPlace(e, since) ==
    1 + Cardinality({q \in Listed(since) :
            \/ q.date > e.date
            \/ q.date = e.date /\ q.amount > e.amount
            \/ q.date = e.date /\ q.amount = e.amount /\ q.id > e.id})

\* C22: list_recent returns the rows offset .. offset+limit-1 of the
\* expenses of date >= since (all, without since) in the order (date
\* descending, amount descending, id descending).
C22_ListRecentPage ==
    [][(Returns /\ hist'[Len(hist')].op = "list_recent") =>
        LET a == hist'[Len(hist')].args
            rows == hist'[Len(hist')].res[2]
            n == Cardinality(Listed(a.since))
        IN /\ Len(rows) = Max({0, Min({a.limit, n - a.offset})})
           /\ \A k \in 1..Len(rows) :
                \E e \in Listed(a.since) :
                    /\ RecentPlace(e, a.since) = a.offset + k
                    /\ rows[k].date = isoformat(e.date)
                    /\ rows[k].amount = e.amount
                    /\ rows[k].description = e.description]_vars

\* C22 witness: with a fourth expense of day 1 and amount 5 stored after
\* the three, list_recent(limit=2, offset=1) has returned it before the
\* older expense of that day and amount.
C22_Witness ==
    /\ Len(hist) >= 2
    /\ Cardinality(expenses) = 4
    /\ LastReturn.op = "list_recent"
    /\ LastReturn.args = [limit |-> 2, offset |-> 1, since |-> None]
    /\ Len(LastReturn.res[2]) = 2
    /\ LastReturn.res[2][1].description = "SATS" /\ LastReturn.res[2][1].amount = 5
    /\ LastReturn.res[2][2].description = "ICA" /\ LastReturn.res[2][2].amount = 5

\* Deep equality of two values up to the order of the keys of their dicts:
\* the == of Python, under which a number is equal to itself as an int and
\* as a float.
IsNumber(v) == v[1] \in {"int", "float"}

Keys(d) == {d[2][i][1] : i \in 1..Len(d[2])}

ValueAt(d, k) == d[2][CHOOSE i \in 1..Len(d[2]) : d[2][i][1] = k][2]

RECURSIVE DeepEqual(_, _)
DeepEqual(x, y) ==
    IF x[1] = "dict" /\ y[1] = "dict"
    THEN /\ Keys(x) = Keys(y)
         /\ \A k \in Keys(x) : DeepEqual(ValueAt(x, k), ValueAt(y, k))
    ELSE IF IsNumber(x) /\ IsNumber(y) THEN x[2] = y[2]
    ELSE x = y

HashReturns == {i \in 1..Len(hist) : hist[i].op = "hash"}

\* C23: two records get the same hash exactly when they are deep-equal up
\* to the order of their keys at every nesting level.
C23_HashKeyOrderInsensitive ==
    \A i, j \in HashReturns :
        DeepEqual(hist[i].args.text, hist[j].args.text) <=> hist[i].res = hist[j].res

\* The ids the calls of add and save_expenses have returned.
ReturnedIds(h) ==
    UNION {IF h[i].op = "add" THEN {h[i].res[2]}
           ELSE {h[i].res[2][k] : k \in 1..Len(h[i].res[2])} :
           i \in {j \in 1..Len(h) : h[j].op \in {"add", "save_expenses"} /\ h[j].res[1] = "ok"}}

\* C24: no step of add or save_expenses changes or deletes an expense row:
\* every row of a state is a row of the next, no second row takes its id,
\* and every id a call has returned identifies one row.
C24_ExpensesOnlyGrow ==
    [][/\ \A e \in expenses :
            e \in expenses' /\ \A q \in expenses' : q.id = e.id => q = e
       /\ \A id \in ReturnedIds(hist') :
            Cardinality({e \in expenses' : e.id = id}) = 1]_vars

\* C24 witness: add has returned id 1, and a later save_expenses has stored
\* two more rows next to the unchanged row 1.
C24_Witness ==
    /\ Len(hist) = 2
    /\ hist[1].op = "add" /\ hist[1].res = Ok(1) /\ Cardinality(hist[1].wrote) = 1
    /\ hist[2].op = "save_expenses" /\ hist[2].res = Ok(<<2, 3>>)
    /\ hist[1].wrote \subseteq expenses
    /\ Cardinality(expenses) = 3

\* C25: an add with dedupe_on_hash=False, or without a raw payload, succeeds
\* and inserts a row of a new id whose hash is null, so that two such calls
\* with one raw payload make two rows.
C25_NoDedupeNullHash ==
    [][(Returns /\ hist'[Len(hist')].op = "add"
                /\ (~hist'[Len(hist')].args.dedupe_on_hash
                    \/ hist'[Len(hist')].args.raw = None)) =>
        LET h == hist'[Len(hist')]
        IN /\ h.res[1] = "ok"
           /\ \A e \in expenses : e.id # h.res[2]
           /\ \E e \in expenses' : e.id = h.res[2] /\ e.hash = None]_vars

\* No ensure_seed has run or is running.
NoSeeding(h, l) ==
    /\ \A i \in 1..Len(h) : h[i].op # "ensure_seed"
    /\ \A q \in Procs : l[q].op # "ensure_seed"

\* C31: a get_or_create_other (or a resolve_id without fallback for an
\* unknown name) that found no 'other', alone or next to another such call,
\* returns an id without raising, the id every such call returns, and one
\* 'other' row is stored afterwards.
C31_ConcurrentOther ==
    [][(Returns /\ NoSeeding(hist', loc)
        /\ \E p \in Procs : pc[p] = "other_commit" /\ pc'[p] = "idle") =>
        LET h == hist'[Len(hist')]
        IN /\ h.res[1] = "ok"
           /\ Cardinality({c \in categories' : PyLower(c.name) = OtherName}) = 1
           /\ \E c \in categories' : PyLower(c.name) = OtherName /\ h.res = Ok(c.id)]_vars

\* C32: an ensure_seed of the default vocabulary, whatever calls of
\* ensure_seed, get_or_create_other and resolve_id it is interleaved with,
\* returns without error, and every default name is then stored once.
C32_SeedConcurrent ==
    [][(Returns /\ hist'[Len(hist')].op = "ensure_seed"
                /\ hist'[Len(hist')].args = DEFAULT_SEED) =>
        /\ hist'[Len(hist')].res[1] = "ok"
        /\ \A n \in DefaultNames :
             Cardinality({c \in categories' : c.name = n}) = 1]_vars

\* C33: a save-expenses request that the handler rejects for an invalid
\* date or amount has persisted no expense.
C33_RejectedPersistsNothing ==
    [][(Returns /\ hist'[Len(hist')].op = "save_expenses_handler"
                /\ hist'[Len(hist')].res = Raised("HTTP 400")) =>
        hist'[Len(hist')].wrote = {}]_vars

\* The page of an ordered result: its rows after the first offset, and of
\* these the first limit when there is a limit.
Page(full, limit, offset) ==
    LET rest == SubSeq(full, offset + 1, Len(full))
    IN IF limit = None THEN rest ELSE SubSeq(rest, 1, Min({limit[1], Len(rest)}))

\* C34: between and totals_by_category_between return the ordered result
\* without its first offset rows, cut to limit rows when a limit is given.
C34_OffsetWithoutLimit ==
    [][(Returns /\ hist'[Len(hist')].op \in {"between", "totals_by_category_between"}) =>
        LET a == hist'[Len(hist')].args
            rows == hist'[Len(hist')].res[2]
        IN IF hist'[Len(hist')].op = "between"
           THEN rows = Page(between(a.start, a.end, a.category_id, None, 0, a.order),
                            a.limit, a.offset)
           ELSE rows = Page(totals_by_category_between(a.start_date, a.end_date, a.only_active,
                                                       a.include_zero, a.order, None, 0),
                            a.limit, a.offset)]_vars

\* C35: the rows of totals_by_category_between are in the order of their
\* totals in the requested direction, rows of one total in the ascending
\* order of their category names.
C35_TotalsOrdered ==
    [][(Returns /\ hist'[Len(hist')].op = "totals_by_category_between") =>
        LET a == hist'[Len(hist')].args
            rows == hist'[Len(hist')].res[2]
        IN \A k \in 1..(Len(rows) - 1) :
            /\ a.order = "asc" => rows[k].total <= rows[k + 1].total
            /\ a.order # "asc" => rows[k].total >= rows[k + 1].total
            /\ rows[k].total = rows[k + 1].total
               => NameLess(rows[k].category_name, rows[k + 1].category_name)]_vars

\* C35 witness: for day 2 the totals with include_zero have been returned in
\* both directions: 'pets' (7) last after 'gym' and 'other' (both 0), and
\* 'pets' first before 'gym' and 'other'.
C35_Witness ==
    /\ Len(hist) = 2
    /\ \A i \in 1..2 : /\ hist[i].op = "totals_by_category_between"
                       /\ hist[i].args.limit = None /\ hist[i].args.include_zero
    /\ hist[1].args.order = "asc" /\ hist[2].args.order = "desc"
    /\ [k \in 1..3 |-> hist[1].res[2][k].category_id] = <<3, 2, 1>>
    /\ [k \in 1..3 |-> hist[2].res[2][k].category_id] = <<1, 3, 2>>

\* C36: in every reachable state the category_id of every expense row is the
\* id of an existing category row.
C36_CategoryIdsExist ==
    \A e \in expenses : \E c \in categories : c.id = e.category_id

\* C37: the total of every row of totals_by_category_between without a
\* limit is sum_for_category of the row's category over the same range, and
\* no two rows have the same category id.
C37_TotalsMatchSum ==
    [][(Returns /\ hist'[Len(hist')].op = "totals_by_category_between"
                /\ hist'[Len(hist')].args.limit = None) =>
        LET a == hist'[Len(hist')].args
            rows == hist'[Len(hist')].res[2]
        IN \A k \in 1..Len(rows) :
            /\ rows[k].total = sum_for_category(rows[k].category_id, a.start_date, a.end_date)
            /\ \A j \in 1..Len(rows) : rows[j].category_id = rows[k].category_id => j = k]_vars

\* C37 witness: 'pets' has expenses of day 1 and of day 2, and the totals of
\* day 2 have been returned with 7 for 'pets', the amount of day 2 alone,
\* and 0 for 'other'.
C37_Witness ==
    /\ \E e \in expenses : e.category_id = 1 /\ e.date = 1
    /\ \E i \in 1..Len(hist) :
        /\ hist[i].op = "totals_by_category_between"
        /\ hist[i].args.limit = None
        /\ Len(hist[i].res[2]) = 2
        /\ hist[i].res[2][1].category_id = 1 /\ hist[i].res[2][1].total = 7
        /\ hist[i].res[2][2].category_id = 2 /\ hist[i].res[2][2].total = 0

\* C39: get_expenses_between and sum_for_category_between called with a
\* name that matches no category have a category like 'other' afterwards
\* (there before, or inserted by the call), and return the expenses of
\* the range that belong to it, respectively the sum of their amounts.
C39_UnknownNameIsOther ==
    [][(/\ Returns
        /\ hist'[Len(hist')].op \in {"get_expenses_between", "sum_for_category_between"}
        /\ hist'[Len(hist')].args.category # None
        /\ hist'[Len(hist')].args.category[1] = "str"
        /\ Matching(hist'[Len(hist')].args.category[2]) = {}) =>
        LET h == hist'[Len(hist')]
            other == {c \in categories' : ILike(c.name, OtherName)}
            theirs == {e \in expenses' : /\ InRange(e, h.args.start_date, h.args.end_date)
                                         /\ \E c \in other : c.id = e.category_id}
        IN /\ other # {}
           /\ h.wrote \in {{}, other}
           /\ IF h.op = "sum_for_category_between"
              THEN h.res = Ok(Total(theirs))
              ELSE /\ Len(h.res[2]) = Cardinality(theirs)
                   /\ {h.res[2][k].id : k \in 1..Len(h.res[2])} = {e.id : e \in theirs}]_vars

\* C39 witness: on a database with 'pets' and 'other', the sum for the name
\* 'Nonexistent' has returned 3, the amount of the one expense of 'other',
\* and get_expenses_between for that name has returned that expense.
C39_Witness ==
    /\ Len(hist) = 2
    /\ hist[1].op = "sum_for_category_between"
    /\ hist[1].args.category = <<"str", NotOffered>>
    /\ hist[1].res = Ok(3)
    /\ hist[2].op = "get_expenses_between"
    /\ hist[2].args.category = <<"str", NotOffered>>
    /\ Len(hist[2].res[2]) = 1
    /\ hist[2].res[2][1].id = 2 /\ hist[2].res[2][1].category_name = OtherName

\* C40: items of one save_expenses call with dedupe that have the same
\* date, description and amount and differ in the category string they give
\* are stored as two rows, also when they resolve to the same category id.
C40_CategoryStringInKey ==
    [][(Returns /\ hist'[Len(hist')].op = "save_expenses"
                /\ hist'[Len(hist')].args.dedupe_on_hash) =>
        LET h == hist'[Len(hist')]
            items == h.args.items
        IN \A i, j \in 1..Len(items) :
            (/\ i < j
             /\ items[i].category # items[j].category
             /\ [items[i] EXCEPT !.category = None, !.category_id = None]
                = [items[j] EXCEPT !.category = None, !.category_id = None])
            => /\ h.res[1] = "ok"
               /\ h.res[2][i] # h.res[2][j]
               /\ \A k \in {i, j} : \E e \in expenses' : e.id = h.res[2][k]]_vars

\* C40 witness: save_expenses of an item under 'Pets' and the same item
\* under 'pets' has stored two rows of category 1, and save_expenses of the
\* item under 'pets' and the same item under category_id 1 without a name
\* has returned the second of them and a third row of category 1.
C40_Witness ==
    /\ Len(hist) = 2
    /\ hist[1].op = "save_expenses" /\ hist[1].args.dedupe_on_hash
    /\ hist[1].args.items = <<ItemPetsCap, ItemPets>>
    /\ hist[1].res = Ok(<<1, 2>>)
    /\ hist[2].op = "save_expenses" /\ hist[2].args.dedupe_on_hash
    /\ Len(hist[2].args.items) = 2
    /\ hist[2].args.items[1] = ItemPets
    /\ hist[2].args.items[2].category = None /\ hist[2].args.items[2].category_id = Some(1)
    /\ hist[2].res = Ok(<<2, 3>>)
    /\ \A e \in expenses : e.category_id = 1
    /\ Cardinality(expenses) = 3

\* The classify calls in the history.
Classifies == {i \in 1..Len(hist) : hist[i].op = "classify"}

\* Two records are equal up to the order of their keys.
SameItems(t, u) == {t[2][k] : k \in 1..Len(t[2])} = {u[2][k] : k \in 1..Len(u[2])}

\* The call went to the external classifier.
InvokedModel(h) == \E k \in 1..Len(h.steps) : h.steps[k][1] = "model"

CacheHit(h) == h.op = "classify" /\ h.steps[1][1] = "cache_lookup" /\ h.steps[1][2] # None

\* C26: a classify that hits the cache returns the cached id at once: its
\* only step is the lookup, it fetches no vocabulary, invokes no classifier
\* and writes no cache or category row.
C26_CacheHitTerminal ==
    [][(Returns /\ CacheHit(hist'[Len(hist')])) =>
        LET h == hist'[Len(hist')]
        IN /\ h.steps = <<<<"cache_lookup", lookup(h.args.tx)>>>>
           /\ h.res = Ok(lookup(h.args.tx)[1])
           /\ h.wrote = {}
           /\ pc["p1"] = "idle"
           /\ categories' = categories /\ cache' = cache /\ expenses' = expenses]_vars

\* C26 witness: a second classify of a record has returned the cached id
\* with the lookup as its only step.
C26_Witness ==
    /\ Len(hist) = 2
    /\ hist[1].op = "classify" /\ InvokedModel(hist[1]) /\ hist[1].res[1] = "ok"
    /\ CacheHit(hist[2]) /\ hist[2].args.tx = hist[1].args.tx
    /\ Len(hist[2].steps) = 1
    /\ hist[2].res = hist[1].res

\* The classify call missed the cache; the names of its steps.
CacheMiss(h) == h.op = "classify" /\ h.steps[1] = <<"cache_lookup", None>>

StepNames(h) == [k \in 1..Len(h.steps) |-> h.steps[k][1]]

\* C27: a classify that misses the cache fetches the vocabulary, invokes the
\* external classifier, resolves the name and writes the cache, once each
\* and in this order, and returns the id it wrote for the record.
C27_MissIsLinear ==
    [][(Returns /\ CacheMiss(hist'[Len(hist')])) =>
        LET h == hist'[Len(hist')]
        IN /\ StepNames(h) = <<"cache_lookup", "vocabulary", "model", "resolve", "cache_write">>
           /\ h.res = Ok(h.steps[5][2])
           /\ h.steps[5][2] = h.steps[4][2]
           /\ {r.category_id : r \in {q \in cache' : q.hash = hash(h.args.tx)}} = {h.res[2]}]_vars

\* The vocabulary fetches among the steps of a call.
Fetches(h) == Cardinality({k \in 1..Len(h.steps) : h.steps[k][1] = "vocabulary"})

Misses(h) == Cardinality({k \in 1..Len(h.steps) : h.steps[k] = <<"cache_lookup", None>>})

\* C28: classify_batch fetches the vocabulary at most once per batch, and
\* not at all when every record of the batch hits the cache.
C28_BatchFetchesOnce ==
    [][(Returns /\ hist'[Len(hist')].op = "classify_batch") =>
        LET h == hist'[Len(hist')]
        IN /\ Fetches(h) <= 1
           /\ Misses(h) = 0 => Fetches(h) = 0]_vars

\* C29: while the external classifier call of a classify is in progress
\* (the call is about to be made, or has just returned), the classify holds
\* no open database session: the lookup and the vocabulary fetch have closed
\* theirs, the resolution and the cache write have not opened theirs yet.
C29_NoSessionDuringModelCall ==
    \A p \in Procs :
        /\ pc[p] = "clf_model" => ~loc[p].session
        /\ pc[p] = "clf_resolve" => ~loc[p].session

\* C29 witness: the classify is about to call the classifier after a
\* vocabulary fetch that inserted 'other' in a session of its own.
C29_Witness ==
    /\ pc["p1"] = "clf_model"
    /\ loc["p1"].wrote # {}
    /\ ~loc["p1"].session

\* The call with locals l, at step at, is a classify of a record equal to
\* tx that missed the cache.
MissInProgress(at, l, tx) ==
    /\ at # "idle" /\ l.op = "classify"
    /\ SameItems(l.args.tx, tx)
    /\ l.steps[1] = <<"cache_lookup", None>>

\* C30: of two classify calls of one record that overlap and both miss the
\* cache, the one that returns first returns an id, and the one that returns
\* second (it missed although the first wrote the entry) returns the same
\* id, the cache holding one entry for the record, with that id.
C30_ConcurrentClassify ==
    [][(Returns /\ CacheMiss(hist'[Len(hist')])) =>
        LET h == hist'[Len(hist')]
            key == hash(h.args.tx)
        IN /\ (\E q \in Procs : MissInProgress(pc'[q], loc'[q], h.args.tx)) => h.res[1] = "ok"
           /\ \A i \in 1..Len(hist) :
                (CacheMiss(hist[i]) /\ SameItems(hist[i].args.tx, h.args.tx)
                 /\ hist[i].res[1] = "ok")
                => /\ h.res = hist[i].res
                   /\ {r.category_id : r \in {x \in cache' : x.hash = key}} = {h.res[2]}
                   /\ Cardinality({x \in cache' : x.hash = key}) = 1]_vars

\* The step is the return of a write for the hash of tx that committed.
WriteReturns(tx) ==
    /\ Returns
    /\ hist'[Len(hist')].op = "write"
    /\ hist'[Len(hist')].res = Ok(None)
    /\ hash(hist'[Len(hist')].args.tx) = hash(tx)

\* C5: once write(tx, c) has committed, lookup(tx) gives c; what lookup(tx)
\* gives changes at no step but a committed write for the same hash; and
\* an entry is never removed, so lookup never goes from an id back to None.
C5_CacheRoundTrip ==
    [][\A tx \in Txs :
        /\ WriteReturns(tx) => lookup(tx)' = Some(hist'[Len(hist')].args.category_id)
        /\ ~WriteReturns(tx) => lookup(tx)' = lookup(tx)
        /\ lookup(tx) # None => lookup(tx)' # None]_vars

\* C5 witness: write(TxA, 1), then a write for another record, then a
\* lookup of TxA in the other key order that returned 1.
C5_Witness ==
    /\ Len(hist) = 3
    /\ hist[1].op = "write" /\ hist[1].args = [tx |-> TxA, category_id |-> 1]
    /\ hist[1].res = Ok(None)
    /\ hist[2].op = "write" /\ hist[2].args.tx = TxB /\ hist[2].res = Ok(None)
    /\ hist[3].op = "lookup" /\ hist[3].args.tx = TxAReordered
    /\ hist[3].res = Ok(Some(1))

\* C6: the cache holds at most one entry per hash; a committed write for a
\* hash that has an entry replaces its category id and leaves the number of
\* entries unchanged, and one for a new hash adds exactly one entry.
C6_OneEntryPerHash ==
    [][/\ \A r1, r2 \in cache' : r1.hash = r2.hash => r1 = r2
       /\ \A tx \in Txs : WriteReturns(tx) =>
            /\ CacheGet(hash(tx))' =
                   {[hash |-> hash(tx), category_id |-> hist'[Len(hist')].args.category_id]}
            /\ Cardinality(cache') =
                   Cardinality(cache) + (IF CacheGet(hash(tx)) = {} THEN 1 ELSE 0)]_vars

\* C6 witness: write(TxA, 1) and then write(TxAReordered, 2) have
\* committed, and the cache holds the one entry of their hash, with id 2.
C6_Witness ==
    /\ Len(hist) >= 2
    /\ hist[1].op = "write" /\ hist[1].args = [tx |-> TxA, category_id |-> 1]
    /\ hist[1].res = Ok(None)
    /\ hist[2].op = "write" /\ hist[2].args = [tx |-> TxAReordered, category_id |-> 2]
    /\ hist[2].res = Ok(None)
    /\ cache = {[hash |-> hash(TxA), category_id |-> 2]}

\* The request of the call raised, or its response named no label of the
\* offered vocabulary.
FellBack(h) ==
    \E k \in 1..Len(h.steps) :
        h.steps[k] \in {<<"model", "raised">>, <<"model", "unrecognised">>}

\* C7: classify never raises because of the external classifier, and
\* whenever the classifier raises or names no label of the offered
\* vocabulary, classify returns the id of the 'other' category.
C7_ClassifierFallback ==
    \A i \in Classifies :
        /\ hist[i].res # Raised("AttributeError")
        /\ FellBack(hist[i]) => hist[i].res = Ok(OtherRow[1])

\* C38: when the request to the external classifier failed (or its response
\* named no label of the vocabulary) and classify returned the id of
\* 'other', that id is in the cache under the record's hash, and every later
\* classify of the record returns it without invoking the classifier.
C38_FallbackCached ==
    \A i \in Classifies :
        (FellBack(hist[i]) /\ hist[i].res[1] = "ok")
        => /\ hist[i].res = Ok(OtherRow[1])
           /\ [hash |-> hash(normalize_for_hash(hist[i].args.tx)),
               category_id |-> hist[i].res[2]] \in cache
           /\ \A j \in Classifies :
                (j > i /\ hist[j].args.tx = hist[i].args.tx)
                => hist[j].res = hist[i].res /\ ~InvokedModel(hist[j])

\* C38 witness: the request of classify(TxA) raised and the call returned
\* the id of 'other'; the next classify(TxA) returned it from the cache.
C38_Witness ==
    /\ Len(hist) = 2
    /\ hist[1].op = "classify" /\ hist[1].args.tx = TxA
    /\ \E k \in 1..Len(hist[1].steps) : hist[1].steps[k] = <<"model", "raised">>
    /\ hist[1].res = Ok(OtherRow[1])
    /\ hist[2].op = "classify" /\ hist[2].args.tx = TxA
    /\ hist[2].steps = <<<<"cache_lookup", Some(OtherRow[1])>>>>
    /\ hist[2].res = hist[1].res

\* C8: for every pair of names n1, n2 that differ only in letter case,
\* resolve_id(n1) and resolve_id(n2) return the same id (with the same
\* fallback), whatever categories are stored.
C8_CaseInsensitive ==
    \A n1, n2 \in ResolveNames, f \in Fallbacks :
        PyLower(n1) = PyLower(n2) => resolve_id(n1, f) = resolve_id(n2, f)

\* C9: resolve_id(name) returns the id of a stored category only when that
\* category's name equals name ignoring case; for every other name it
\* returns the fallback id or the id of 'other'.
C9_ExactLookup ==
    \A n \in ResolveNames, f \in Fallbacks :
        LET r == resolve_id(n, f)
        IN \/ \E c \in categories : c.id = r /\ PyLower(c.name) = PyLower(n)
           \/ f # None /\ r = f[1]
           \/ r = resolve_id(OtherName, None)

\* C10: a resolve_id call with a fallback id f and a name that matches no
\* category returns f, and the call inserts no category row.
C10_FallbackNoCreate ==
    [][Returns =>
        LET h == hist'[Len(hist')]
        IN (/\ h.op = "resolve_id"
            /\ h.args.fallback_other_id # None
            /\ Matching(h.args.name) = {})
           => /\ h.res = Ok(h.args.fallback_other_id[1])
              /\ h.wrote = {}
              /\ categories' = categories]_vars

\* C10 witness: resolve_id("Nonexistent", fallback_other_id=5) has returned 5
\* on a store that holds categories, none of them 'Nonexistent'.
C10_Witness ==
    /\ hist # <<>>
    /\ LastReturn.op = "resolve_id"
    /\ LastReturn.args = [name |-> <<"N", "o", "n", "e", "x", "i", "s", "t", "e", "n", "t">>, fallback_other_id |-> Some(5)]
    /\ LastReturn.res = Ok(5)
    /\ categories # {}
    /\ Matching(LastReturn.args.name) = {}

====
